---------------------------- MODULE Spec2Model ----------------------------
(***************************************************************************)
(* Model of the mention-relay and message-cache subsystem of the WhatsApp  *)
(* automation bot.                                                         *)
(*                                                                         *)
(*   SpecStore   - the two MessageStore classes (src/src/core and the      *)
(*                 legacy one), driven by the same sequence of calls       *)
(*   SpecMention - one run of handleMentions, with sendDirectMessage,      *)
(*                 enhanceMessageWithAI and getChatCompletion              *)
(*   SpecInbound - interleaved processMessage tasks                        *)
(*   SpecRecord  - the conversation records of userDataService             *)
(*   SpecResolve - findPhoneNumberByName on bounded data directories       *)
(*   SpecQueue   - the reply queue                                         *)
(*   SpecPipe    - processMessage and sendAutoReply with the records       *)
(*   SpecNormalize - formatNumberForWhatsApp on character sequences        *)
(*   SpecText    - mention extraction and removal on character sequences   *)
(*   SpecDetect  - the two language detections on one text                 *)
(*   SpecTop     - the ranking of the senders of one group                 *)
(*   SpecCommand - the reply command on both stores, with the reply queue  *)
(*   SpecQueueFair - SpecQueue with timers and sends that complete         *)
(*   SpecStoreIds - the stores under add (with identifier), get, remove    *)
(*   SpecConnect - connection closes, reconnects and the command line      *)
(*                                                                         *)
(* Text is modelled as sequences of one-character strings.                 *)
(***************************************************************************)
EXTENDS Integers, Sequences, FiniteSets, TLC

(***************************************************************************)
(* Bounds                                                                  *)
(***************************************************************************)
\* capacity N of both stores (options.maxSize)
Capacity == 2
\* number of store calls explored
MaxCalls == 5
\* number of mentions (numbers and names together) in one inbound message
MaxMentions == 2
\* size above which global.processedMessages is trimmed (1000 in the code)
ProcessedLimit == 2
\* number of messages.upsert events
MaxDeliveries == 3
\* history bound B (prefs.userData.maxConversationLength, 100 by default)
HistoryBound == 2
\* number of userDataService calls explored
MaxRecordCalls == 3
\* number of inbox records, and of participants, in a looked-up directory
MaxResolveRecords == 2
\* number of queueReply calls
MaxQueued == 4
\* number of processMessage calls that touch the records
MaxPipeline == 2
\* length of the numbers given to formatNumberForWhatsApp
MaxNumberLen == 4
\* number of pieces a message text is put together from
MaxPieces == 4
\* the length stats.topParticipants is cut to (10 in the code)
TopLimit == 2
\* addMessage calls on the group record whose ranking is observed
MaxTopAdds == 5
\* number of reply commands
MaxCommands == 2
\* number of sockets made, and of command lines entered
MaxConnections == 3
MaxLines == 2

(***************************************************************************)
(* State                                                                   *)
(***************************************************************************)
VARIABLES
  coreMessages,    \* core MessageStore.messages
  legacyMessages,  \* legacy MessageStore.messages
  messageQueue,    \* legacy MessageStore.messageQueue
  storeCalls,      \* number of calls made so far
  lastCall         \* the last call and what each store returned

storeVars == <<coreMessages, legacyMessages, messageQueue, storeCalls, lastCall>>

VARIABLES
  mentionedNumbers,  \* message.metadata.mentionedNumbers
  mentionedNames,    \* message.metadata.mentionedNames
  actualEmpty,       \* extractActualMessage returned ''
  dataDir,           \* the records on disk
  mpc,               \* where handleMentions is
  idx,               \* index of the current element of the current loop
  processedNumbers,  \* the Set processedNumbers
  results,           \* the array results
  cur,               \* locals of the current iteration
  sent,              \* every sock.sendMessage call, in order, with its outcome
  sendCalls,         \* every finished sendDirectMessage call
  iterations,        \* number of loop iterations begun
  threw              \* an exception left handleMentions

mentionVars == <<mentionedNumbers, mentionedNames, actualEmpty, dataDir, mpc, idx,
                 processedNumbers, results, cur, sent, sendCalls, iterations, threw>>

VARIABLES
  processedMessages,  \* global.processedMessages
  tasks               \* the handler tasks started so far

inboundVars == <<processedMessages, tasks>>

VARIABLES
  files,      \* the data directory: path -> absent, unparsable or a record
  appendLog,  \* per path, every message appended so far (history, not read by the code)
  recCalls,   \* number of userDataService calls made so far
  lastRec     \* the last userDataService call and what it returned

recordVars == <<files, appendLog, recCalls, lastRec>>

VARIABLES
  resolveDir,     \* the records getAllUsers reads
  resolveName,    \* the name looked up
  resolveResult,  \* what findPhoneNumberByName returned
  resolveDone     \* the call has returned

resolveVars == <<resolveDir, resolveName, resolveResult, resolveDone>>

VARIABLES
  replyQueue,  \* the array replyQueue
  timers,      \* pending setTimeout(processReplyQueue, 500) callbacks
  flying,      \* replies whose sendReply is awaited, one per running processReplyQueue
  handed,      \* every reply given to sock.sendMessage, in order
  queued       \* every reply given to queueReply, in order

queueVars == <<replyQueue, timers, flying, handed, queued>>

VARIABLES
  outbox  \* every reply sendAutoReply gave to sock.sendMessage, in order

pipeVars == <<outbox>>

VARIABLES
  rawText,  \* the argument of a text function
  textOp,   \* the text function applied to it
  textOut   \* what the function returned

textVars == <<rawText, textOp, textOut>>

VARIABLES
  lastCommand  \* the last reply command and what it did (history)

commandVars == <<lastCommand>>

VARIABLES
  impl,        \* which entry point runs: messageHandler.js or part_000
  socks,       \* one entry per socket made, with its readline interface
  reconnects,  \* the pending setTimeout reconnect callbacks, by socket
  lastClose,   \* the last connection-close event and what the handler did
  entered,     \* number of command lines entered on stdin
  lineRuns     \* every run of a 'line' listener (history)

connVars == <<impl, socks, reconnects, lastClose, entered, lineRuns>>

\* the sections after the inbound one
laterVars == <<recordVars, resolveVars, queueVars, pipeVars, textVars, commandVars, connVars>>

vars == <<storeVars, mentionVars, inboundVars, laterVars>>

(***************************************************************************)
(* Generic helpers                                                         *)
(***************************************************************************)
Range(s) == {s[i] : i \in 1..Len(s)}

RECURSIVE SeqOfN(_, _)
SeqOfN(S, n) == IF n = 0 THEN {<<>>}
                ELSE {Append(s, x) : s \in SeqOfN(S, n - 1), x \in S}

SeqUpTo(S, n) == UNION {SeqOfN(S, k) : k \in 0..n}

\* the JavaScript value undefined, as a key / identifier
Undefined == "undefined"

(***************************************************************************)
(* MessageStore (src/src/core/messageStore.js and src/messageStore.js)     *)
(*                                                                         *)
(* A JavaScript Map is a sequence of entries in insertion order: set() of  *)
(* a present key replaces the value in place, set() of an absent key       *)
(* appends, keys().next() is the first entry.  An entry is                 *)
(* [id, obj, at]: obj identifies the stored message object (the number of  *)
(* the add call that stored it) and at is the number of the call that      *)
(* inserted the key (history, not read by the code).                       *)
(***************************************************************************)
StoreIds == {"A", "B", "C"}

\* message objects handed to add(): without key, with a key that has no
\* id, or with an id
StoreMessages == {[hasKey |-> FALSE, id |-> Undefined],
                  [hasKey |-> TRUE, id |-> Undefined]}
                 \cup {[hasKey |-> TRUE, id |-> i] : i \in StoreIds}

MapKeys(m) == {m[i].id : i \in 1..Len(m)}
MapHas(m, k) == k \in MapKeys(m)
MapIndex(m, k) == CHOOSE i \in 1..Len(m) : m[i].id = k
MapGet(m, k) == m[MapIndex(m, k)]
MapSet(m, k, o, t) ==
  IF MapHas(m, k)
  THEN [m EXCEPT ![MapIndex(m, k)].obj = o]
  ELSE Append(m, [id |-> k, obj |-> o, at |-> t])
MapDelete(m, k) == SelectSeq(m, LAMBDA e : e.id # k)

\* Array.prototype.splice(indexOf(x), 1): drop the first occurrence of x
RemoveFirst(q, x) ==
  IF x \notin Range(q) THEN q
  ELSE LET i == CHOOSE j \in 1..Len(q) :
                  q[j] = x /\ \A k \in 1..(j - 1) : q[k] # x
       IN SubSeq(q, 1, i - 1) \o SubSeq(q, i + 1, Len(q))

Ret(st, id, obj) == [st |-> st, id |-> id, obj |-> obj]

\* the keys of a Map, each with the call that inserted it
Slots(m) == {[id |-> m[i].id, at |-> m[i].at] : i \in 1..Len(m)}

\* the record of a call: what was called, what each store returned, and the
\* entries each store held before the call and no longer holds after it
Call(op, msg, coreRet, legacyRet, c0, c1, l0, l1) ==
  [op |-> op, msg |-> msg, core |-> coreRet, legacy |-> legacyRet,
   coreSize |-> Len(c0), legacySize |-> Len(l0),
   coreGone |-> Slots(c0) \ Slots(c1),
   legacyGone |-> Slots(l0) \ Slots(l1)]

\* ---- core store ----
CoreAddThrows(msg) == ~msg.hasKey

CoreAddNoEvict(m, msg, t) == MapSet(m, msg.id, t, t)
CoreAdd(m, msg, t) ==
  LET m1 == MapSet(m, msg.id, t, t)
  IN IF Len(m1) > Capacity THEN MapDelete(m1, m1[1].id) ELSE m1

\* a variant that falls back to the most recently stored message
CoreGetOrLast(m, k) ==
  IF MapHas(m, k) THEN Ret("hit", k, MapGet(m, k).obj)
  ELSE IF m # <<>> THEN Ret("hit", k, m[Len(m)].obj)
  ELSE Ret("null", k, 0)
CoreGet(m, k) == IF MapHas(m, k) THEN Ret("hit", k, MapGet(m, k).obj)
                 ELSE Ret("null", k, 0)

CoreRemove(m, k) == MapDelete(m, k)

\* ---- legacy store ----
LegacyAddThrows(msg) == ~msg.hasKey \/ msg.id = Undefined

LegacyAdd(m, q, msg, t) ==
  LET full == Len(q) >= Capacity
      q1 == IF full THEN Tail(q) ELSE q
      m1 == IF full THEN MapDelete(m, Head(q)) ELSE m
  IN [messages |-> MapSet(m1, msg.id, t, t),
      messageQueue |-> Append(q1, msg.id)]

LegacyGet(m, k) == IF MapHas(m, k) THEN Ret("hit", k, MapGet(m, k).obj)
                   ELSE Ret("undefined", k, 0)

LegacyRemove(m, q, k) ==
  IF ~MapHas(m, k) THEN [messages |-> m, messageQueue |-> q]
  ELSE [messages |-> MapDelete(m, k), messageQueue |-> RemoveFirst(q, k)]


StoreInit ==
  /\ coreMessages = <<>>
  /\ legacyMessages = <<>>
  /\ messageQueue = <<>>
  /\ storeCalls = 0
  /\ lastCall = Call("new", [hasKey |-> FALSE, id |-> Undefined],
                      Ret("ok", Undefined, 0), Ret("ok", Undefined, 0), <<>>, <<>>, <<>>, <<>>)

StoreAdd(msg) ==
  /\ storeCalls < MaxCalls
  /\ UNCHANGED <<mentionVars, inboundVars, laterVars>>
  /\ storeCalls' = storeCalls + 1
  /\ coreMessages' = IF CoreAddThrows(msg) THEN coreMessages
                     ELSE CoreAdd(coreMessages, msg, storeCalls + 1)
  /\ LET l == LegacyAdd(legacyMessages, messageQueue, msg, storeCalls + 1)
     IN IF LegacyAddThrows(msg)
        THEN UNCHANGED <<legacyMessages, messageQueue>>
        ELSE /\ legacyMessages' = l.messages
             /\ messageQueue' = l.messageQueue
  /\ lastCall' = Call("add", msg,
                       IF CoreAddThrows(msg) THEN Ret("throw", msg.id, 0)
                       ELSE Ret("ok", msg.id, 0),
                       IF LegacyAddThrows(msg) THEN Ret("throw", msg.id, 0)
                       ELSE Ret("ok", msg.id, 0),
                       coreMessages, coreMessages', legacyMessages, legacyMessages')

StoreGet(k) ==
  /\ storeCalls < MaxCalls
  /\ UNCHANGED <<mentionVars, inboundVars, laterVars>>
  /\ storeCalls' = storeCalls + 1
  /\ UNCHANGED <<coreMessages, legacyMessages, messageQueue>>
  /\ lastCall' = Call("get", [hasKey |-> TRUE, id |-> k],
                       CoreGet(coreMessages, k), LegacyGet(legacyMessages, k),
                       coreMessages, coreMessages', legacyMessages, legacyMessages')

StoreRemove(k) ==
  /\ storeCalls < MaxCalls
  /\ UNCHANGED <<mentionVars, inboundVars, laterVars>>
  /\ storeCalls' = storeCalls + 1
  /\ coreMessages' = CoreRemove(coreMessages, k)
  /\ LET l == LegacyRemove(legacyMessages, messageQueue, k)
     IN /\ legacyMessages' = l.messages
        /\ messageQueue' = l.messageQueue
  /\ lastCall' = Call("remove", [hasKey |-> TRUE, id |-> k],
                       Ret(IF MapHas(coreMessages, k) THEN "true" ELSE "false", k, 0),
                       Ret(IF MapHas(legacyMessages, k) THEN "true" ELSE "false", k, 0),
                       coreMessages, coreMessages', legacyMessages, legacyMessages')

StoreClear ==
  /\ storeCalls < MaxCalls
  /\ UNCHANGED <<mentionVars, inboundVars, laterVars>>
  /\ storeCalls' = storeCalls + 1
  /\ coreMessages' = <<>>
  /\ legacyMessages' = <<>>
  /\ messageQueue' = <<>>
  /\ lastCall' = Call("clear", [hasKey |-> FALSE, id |-> Undefined],
                       Ret("ok", Undefined, 0), Ret("ok", Undefined, 0),
                       coreMessages, coreMessages', legacyMessages, legacyMessages')

CoreSize == Len(coreMessages)
LegacySize == Len(legacyMessages)


(***************************************************************************)
(* Text helpers (String.prototype methods on sequences of characters)      *)
(***************************************************************************)
Digits == {"0", "1", "2"}
UpperChars == <<"A", "B", "C", "Z">>
LowerChars == <<"a", "b", "c", "z">>
\* the class of whitespace and zero-width characters removed first ("~" stands for a zero-width one)
Invisible == {" ", "~"}

ToLowerChar(c) ==
  IF \E i \in 1..Len(UpperChars) : UpperChars[i] = c
  THEN LowerChars[CHOOSE i \in 1..Len(UpperChars) : UpperChars[i] = c]
  ELSE c
ToLowerCase(s) == [i \in 1..Len(s) |-> ToLowerChar(s[i])]

RECURSIVE TrimStart(_)
TrimStart(s) == IF s # <<>> /\ Head(s) = " " THEN TrimStart(Tail(s)) ELSE s
RECURSIVE TrimEnd(_)
TrimEnd(s) == IF s # <<>> /\ s[Len(s)] = " "
              THEN TrimEnd(SubSeq(s, 1, Len(s) - 1)) ELSE s
Trim(s) == TrimEnd(TrimStart(s))

\* t.includes(s)
Includes(t, s) == \E i \in 0..(Len(t) - Len(s)) : SubSeq(t, i + 1, i + Len(s)) = s

\* s.split('@')[0]
RECURSIVE BeforeAt(_)
BeforeAt(s) == IF s = <<>> \/ Head(s) = "@" THEN <<>>
               ELSE <<Head(s)>> \o BeforeAt(Tail(s))

WhatsAppSuffix == <<"@", "s">>
GroupSuffix == <<"@", "g">>

(***************************************************************************)
(* formatNumberForWhatsApp (mentionService.js)                             *)
(***************************************************************************)
NullJid == <<>>

\* a variant that removes every '+'
FormatNumberDropsEveryPlus(number) ==
  LET digits == SelectSeq(number, LAMBDA c : c \in Digits)
  IN IF digits = <<>> THEN NullJid ELSE digits \o WhatsAppSuffix
FormatNumberForWhatsApp(number) ==
  LET clean1 == SelectSeq(number, LAMBDA c : c \notin Invisible)
      clean2 == SelectSeq(clean1, LAMBDA c : c \in Digits \cup {"+"})
      \* add a + when there is none in front, then remove the first +
      clean3 == IF clean2 # <<>> /\ Head(clean2) = "+" THEN clean2
                ELSE <<"+">> \o clean2
      clean4 == Tail(clean3)
  IN IF number = <<>> THEN NullJid
     ELSE IF clean4 = <<>> \/ \E i \in 1..Len(clean4) : clean4[i] \notin Digits
          THEN NullJid
          ELSE clean4 \o WhatsAppSuffix

(***************************************************************************)
(* The data directory read by getAllUsers and findPhoneNumberByName        *)
(* (userDataService, second half of mentionService.js)                     *)
(***************************************************************************)
NoName == <<>>

\* inbox records [userId, name] in readdir order
InboxFilesA == << [userId |-> <<"1">> \o WhatsAppSuffix, name |-> <<"A", "l">>],
                  [userId |-> <<"s", "t", "@", "b">>, name |-> <<"C", "y">>] >>
\* group records: participants in Object.entries order
GroupFilesA == << [userId |-> <<"9">> \o GroupSuffix,
                   participants |-> << [id |-> <<"2">> \o WhatsAppSuffix,
                                        name |-> <<"B", "o", "b">>],
                                       [id |-> <<"1">> \o WhatsAppSuffix,
                                        name |-> NoName] >>] >>

DataDirs == { [inbox |-> InboxFilesA, groups |-> GroupFilesA],
              [inbox |-> <<>>, groups |-> GroupFilesA] }

NameMatches(userName, normalizedSearchName) ==
  \/ userName = normalizedSearchName
  \/ Includes(userName, normalizedSearchName)
  \/ Includes(normalizedSearchName, userName)

\* all participants of all group records, in scan order
RECURSIVE AllParticipants(_)
AllParticipants(groups) ==
  IF groups = <<>> THEN <<>>
  ELSE Head(groups).participants \o AllParticipants(Tail(groups))

\* a variant that scans the group rosters first
FindPhoneNumberRostersFirst(dir, name) ==
  LET n == Trim(ToLowerCase(name))
      inboxHits == SelectSeq(dir.inbox,
                     LAMBDA u : u.name # NoName /\ NameMatches(Trim(ToLowerCase(u.name)), n))
      partHits == SelectSeq(AllParticipants(dir.groups),
                     LAMBDA p : p.name # NoName /\ NameMatches(Trim(ToLowerCase(p.name)), n))
  IN IF name = <<>> THEN <<>>
     ELSE IF partHits # <<>> THEN BeforeAt(Head(partHits).id)
     ELSE IF inboxHits # <<>> THEN BeforeAt(Head(inboxHits).userId)
     ELSE <<>>
\* returns the phone number, or the empty text where the code returns null
FindPhoneNumberByName(dir, name) ==
  LET n == Trim(ToLowerCase(name))
      inboxHits == SelectSeq(dir.inbox,
                     LAMBDA u : u.name # NoName /\ NameMatches(Trim(ToLowerCase(u.name)), n))
      partHits == SelectSeq(AllParticipants(dir.groups),
                     LAMBDA p : p.name # NoName /\ NameMatches(Trim(ToLowerCase(p.name)), n))
  IN IF name = <<>> THEN <<>>
     ELSE IF inboxHits # <<>> THEN BeforeAt(Head(inboxHits).userId)
     ELSE IF partHits # <<>> THEN BeforeAt(Head(partHits).id)
     ELSE <<>>

(***************************************************************************)
(* getChatCompletion (mistralService.js) and enhanceMessageWithAI          *)
(***************************************************************************)
\* what the HTTP request to the text-generation API does
AiOutcomes == {"ok", "invalid", "error"}

\* [threw, text]: the function catches every failure and returns a string
GetChatCompletion(outcome) ==
  CASE outcome = "ok" -> [threw |-> FALSE, text |-> "ai"]
    [] outcome = "invalid" -> [threw |-> FALSE, text |-> "apologyInvalid"]
    [] outcome = "error" -> [threw |-> FALSE, text |-> "apologyError"]

\* the text quoted in the relay; "raw" is the mention-stripped message
EnhanceMessageWithAI(outcome) ==
  LET r == GetChatCompletion(outcome)
  IN IF r.threw THEN "raw" ELSE r.text


(***************************************************************************)
(* handleMentions and sendDirectMessage (mentionService.js)                *)
(*                                                                         *)
(* One run of handleMentions on an inbound group message.  Every await is  *)
(* a step boundary; what the transport and the text-generation API do is   *)
(* chosen at the step that resumes after the await.                        *)
(***************************************************************************)
\* tokens as extractMentionedNumbers returns them: optional + and digits
NumberTokens == { <<"1">>, <<"+", "1">>, <<"2">> }
\* tokens as extractMentionedNames returns them
NameTokens == { <<"A", "l">>, <<"B", "o">>, <<"C", "y">>, <<"Z", "z">> }

\* message.key.remoteJid of the inbound group message
OriginJid == <<"9">> \o GroupSuffix

SendOutcomes == {"ok", "raise"}


NoCur == [token |-> <<>>, phone |-> <<>>, kind |-> "none", payload |-> "none",
          ai |-> "none"]

MentionInputs ==
  { io \in SeqUpTo(NumberTokens, MaxMentions) \X SeqUpTo(NameTokens, MaxMentions) :
      Len(io[1]) + Len(io[2]) <= MaxMentions }

MentionInit ==
  /\ \E io \in MentionInputs : mentionedNumbers = io[1] /\ mentionedNames = io[2]
  /\ actualEmpty \in BOOLEAN
  /\ dataDir \in DataDirs
  /\ mpc = "start"
  /\ idx = 0
  /\ processedNumbers = {}
  /\ results = <<>>
  /\ cur = NoCur
  /\ sent = <<>>
  /\ sendCalls = <<>>
  /\ iterations = 0
  /\ threw = FALSE

Wire(to, kind, about, payload, ai, ok) ==
  [to |-> to, kind |-> kind, about |-> about, payload |-> payload, ai |-> ai,
   ok |-> ok, iter |-> iterations]

\* results.push({ number | name, success }) and results.push(result)
Outcome(kind, token, success, error) ==
  [kind |-> kind, token |-> token, success |-> success, error |-> error]
TransportResult(token) == Outcome("sent", token, TRUE, FALSE)

\* what one call of sendDirectMessage was given and returned (null or not)
SendCall(token, number, iter, delivered) ==
  [token |-> token, number |-> number, iter |-> iter, delivered |-> delivered]

\* the loop (numbers or names) the current iteration belongs to
LoopPc(kind) == IF kind = "number" THEN "numbers" ELSE "names"

\* for (...) { ... } of either loop moves on to its next element
NextElement(kind) ==
  /\ mpc' = LoopPc(kind)
  /\ idx' = idx + 1
  /\ cur' = NoCur

\* sendDirectMessage up to its first await: validation and formatting
\* (sock and text are always present here).  A number that does not format
\* makes it return null without a transport call.
BeginSend(kind, token, phone, payload, ai) ==
  IF phone = <<>> \/ FormatNumberForWhatsApp(phone) = NullJid
  THEN /\ sendCalls' = Append(sendCalls, SendCall(token, phone, iterations', FALSE))
       /\ processedNumbers' = processedNumbers \cup {phone}
       /\ results' = Append(results, Outcome(kind, token, FALSE, FALSE))
       /\ NextElement(kind)
       /\ UNCHANGED sent
  ELSE /\ cur' = [token |-> token, phone |-> phone, kind |-> kind, payload |-> payload,
                  ai |-> ai]
       /\ mpc' = "send"
       /\ UNCHANGED <<idx, processedNumbers, results, sendCalls, sent>>

\* enhanceMessageWithAI: returns at once on an empty text, else awaits
\* getChatCompletion
BeginEnhance(kind, token, phone) ==
  IF actualEmpty
  THEN BeginSend(kind, token, phone, "raw", "none")
  ELSE /\ cur' = [token |-> token, phone |-> phone, kind |-> kind, payload |-> "none",
                  ai |-> "none"]
       /\ mpc' = "enhance"
       /\ UNCHANGED <<idx, processedNumbers, results, sendCalls, sent>>

HandleMentionsStart ==
  /\ mpc = "start"
  /\ IF mentionedNumbers = <<>> /\ mentionedNames = <<>>
     THEN mpc' = "done" /\ idx' = idx
     ELSE mpc' = "numbers" /\ idx' = 1
  /\ UNCHANGED <<mentionedNumbers, mentionedNames, actualEmpty, dataDir,
                 processedNumbers, results, cur, sent, sendCalls, iterations, threw>>
  /\ UNCHANGED <<storeVars, inboundVars, laterVars>>

\* head of "for (const number of mentionedNumbers)"
AlreadyProcessed(number) == number \in processedNumbers

NumberIter ==
  /\ mpc = "numbers"
  /\ idx <= Len(mentionedNumbers)
  /\ iterations' = iterations + 1
  /\ LET number == mentionedNumbers[idx]
     IN IF AlreadyProcessed(number)
        THEN /\ NextElement("number")
             /\ UNCHANGED <<processedNumbers, results, sendCalls, sent>>
        ELSE BeginEnhance("number", number, number)
  /\ UNCHANGED <<mentionedNumbers, mentionedNames, actualEmpty, dataDir, threw>>
  /\ UNCHANGED <<storeVars, inboundVars, laterVars>>

\* the numbers loop is exhausted: on to the names
NumbersDone ==
  /\ mpc = "numbers"
  /\ idx > Len(mentionedNumbers)
  /\ mpc' = "names"
  /\ idx' = 1
  /\ UNCHANGED <<mentionedNumbers, mentionedNames, actualEmpty, dataDir,
                 processedNumbers, results, cur, sent, sendCalls, iterations, threw>>
  /\ UNCHANGED <<storeVars, inboundVars, laterVars>>

\* head of "for (const name of mentionedNames)"
NameIterSilentMiss ==
  /\ mpc = "names"
  /\ idx <= Len(mentionedNames)
  /\ iterations' = iterations + 1
  /\ LET name == mentionedNames[idx]
         phoneNumber == FindPhoneNumberByName(dataDir, name)
     IN IF phoneNumber = <<>> \/ AlreadyProcessed(phoneNumber)
        THEN /\ NextElement("name")
             /\ UNCHANGED <<processedNumbers, results, sendCalls, sent>>
        ELSE BeginEnhance("name", name, phoneNumber)
  /\ UNCHANGED <<mentionedNumbers, mentionedNames, actualEmpty, dataDir, threw>>
  /\ UNCHANGED <<storeVars, inboundVars, laterVars>>
NameIter ==
  /\ mpc = "names"
  /\ idx <= Len(mentionedNames)
  /\ iterations' = iterations + 1
  /\ LET name == mentionedNames[idx]
         phoneNumber == FindPhoneNumberByName(dataDir, name)
     IN IF phoneNumber = <<>>
        THEN /\ cur' = [NoCur EXCEPT !.token = name, !.kind = "name"]
             /\ mpc' = "notice"
             /\ UNCHANGED <<idx, processedNumbers, results, sendCalls, sent>>
        ELSE IF AlreadyProcessed(phoneNumber)
        THEN /\ NextElement("name")
             /\ UNCHANGED <<processedNumbers, results, sendCalls, sent>>
        ELSE BeginEnhance("name", name, phoneNumber)
  /\ UNCHANGED <<mentionedNumbers, mentionedNames, actualEmpty, dataDir, threw>>
  /\ UNCHANGED <<storeVars, inboundVars, laterVars>>

\* await sock.sendMessage(remoteJid, "I couldn't find ...") resumes
NotFoundNotice(outcome) ==
  /\ mpc = "notice"
  /\ sent' = Append(sent, Wire(OriginJid, "notice", cur.token, "notice", "none",
                               outcome = "ok"))
  /\ results' = IF outcome = "ok" THEN results
                ELSE Append(results, Outcome("name", cur.token, FALSE, TRUE))
  /\ NextElement("name")
  /\ UNCHANGED <<mentionedNumbers, mentionedNames, actualEmpty, dataDir,
                 processedNumbers, sendCalls, iterations, threw>>
  /\ UNCHANGED <<storeVars, inboundVars, laterVars>>

\* await getChatCompletion(messages) resumes inside enhanceMessageWithAI
ChatCompletion(outcome) ==
  /\ mpc = "enhance"
  /\ UNCHANGED <<mentionedNumbers, mentionedNames, actualEmpty, dataDir,
                 iterations, threw>>
  /\ BeginSend(cur.kind, cur.token, cur.phone, EnhanceMessageWithAI(outcome), outcome)
  /\ UNCHANGED <<storeVars, inboundVars, laterVars>>

\* sendDirectMessage returned to handleMentions
AfterSendAlwaysConfirms(delivered) ==
  /\ sendCalls' = Append(sendCalls, SendCall(cur.token, cur.phone, iterations, delivered))
  /\ processedNumbers' = processedNumbers \cup {cur.phone}
  /\ mpc' = "confirm"
  /\ idx' = idx
  /\ cur' = cur
  /\ results' = results
AfterSend(delivered) ==
  /\ sendCalls' = Append(sendCalls, SendCall(cur.token, cur.phone, iterations, delivered))
  /\ processedNumbers' = processedNumbers \cup {cur.phone}
  /\ IF delivered
     THEN /\ mpc' = "confirm"
          /\ idx' = idx
          /\ cur' = cur
          /\ results' = results
     ELSE /\ results' = Append(results, Outcome(cur.kind, cur.token, FALSE, FALSE))
          /\ NextElement(cur.kind)

\* first await sock.sendMessage(formattedNumber, { text }) resumes
SendFirst(outcome) ==
  /\ mpc = "send"
  /\ sent' = Append(sent, Wire(FormatNumberForWhatsApp(cur.phone), "relay", cur.token,
                               cur.payload, cur.ai, outcome = "ok"))
  /\ IF outcome = "ok"
     THEN AfterSend(TRUE)
     ELSE /\ cur' = cur
          /\ mpc' = "retry"
          /\ UNCHANGED <<idx, processedNumbers, results, sendCalls>>
  /\ UNCHANGED <<mentionedNumbers, mentionedNames, actualEmpty, dataDir,
                 iterations, threw>>
  /\ UNCHANGED <<storeVars, inboundVars, laterVars>>

\* the alternative attempt in the catch block resumes
SendAlternativeRetriesAgain(outcome) ==
  /\ mpc = "retry"
  /\ sent' = Append(sent, Wire(FormatNumberForWhatsApp(cur.phone), "relay", cur.token,
                               cur.payload, cur.ai, outcome = "ok"))
  /\ IF outcome = "ok"
     THEN AfterSend(TRUE)
     ELSE UNCHANGED <<mpc, idx, cur, processedNumbers, results, sendCalls>>
  /\ UNCHANGED <<mentionedNumbers, mentionedNames, actualEmpty, dataDir,
                 iterations, threw>>
  /\ UNCHANGED <<storeVars, inboundVars, laterVars>>
SendAlternative(outcome) ==
  /\ mpc = "retry"
  /\ sent' = Append(sent, Wire(FormatNumberForWhatsApp(cur.phone), "relay", cur.token,
                               cur.payload, cur.ai, outcome = "ok"))
  /\ AfterSend(outcome = "ok")
  /\ UNCHANGED <<mentionedNumbers, mentionedNames, actualEmpty, dataDir,
                 iterations, threw>>
  /\ UNCHANGED <<storeVars, inboundVars, laterVars>>

\* await sock.sendMessage(remoteJid, confirmation) resumes
SendConfirmationUncaught(outcome) ==
  /\ mpc = "confirm"
  /\ sent' = Append(sent, Wire(OriginJid, "confirm", cur.token, "confirm", "none",
                               outcome = "ok"))
  /\ IF outcome = "ok"
     THEN /\ results' = results \o << TransportResult(cur.token),
                                       Outcome(cur.kind, cur.token, TRUE, FALSE) >>
          /\ NextElement(cur.kind)
          /\ threw' = threw
     ELSE /\ mpc' = "done"
          /\ threw' = TRUE
          /\ UNCHANGED <<results, idx, cur>>
  /\ UNCHANGED <<mentionedNumbers, mentionedNames, actualEmpty, dataDir,
                 processedNumbers, sendCalls, iterations>>
  /\ UNCHANGED <<storeVars, inboundVars, laterVars>>
SendConfirmation(outcome) ==
  /\ mpc = "confirm"
  /\ sent' = Append(sent, Wire(OriginJid, "confirm", cur.token, "confirm", "none",
                               outcome = "ok"))
  /\ results' = IF outcome = "ok"
                THEN results \o << TransportResult(cur.token),
                                   Outcome(cur.kind, cur.token, TRUE, FALSE) >>
                ELSE Append(results, Outcome(cur.kind, cur.token, FALSE, TRUE))
  /\ NextElement(cur.kind)
  /\ UNCHANGED <<mentionedNumbers, mentionedNames, actualEmpty, dataDir,
                 processedNumbers, sendCalls, iterations, threw>>
  /\ UNCHANGED <<storeVars, inboundVars, laterVars>>

\* return results
HandleMentionsReturn ==
  /\ mpc = "names"
  /\ idx > Len(mentionedNames)
  /\ mpc' = "done"
  /\ UNCHANGED <<mentionedNumbers, mentionedNames, actualEmpty, dataDir, idx,
                 processedNumbers, results, cur, sent, sendCalls, iterations, threw>>
  /\ UNCHANGED <<storeVars, inboundVars, laterVars>>

MentionNext ==
  \/ HandleMentionsStart
  \/ NumberIter
  \/ NumbersDone
  \/ NameIter
  \/ \E o \in SendOutcomes : NotFoundNotice(o)
  \/ \E o \in AiOutcomes : ChatCompletion(o)
  \/ \E o \in SendOutcomes : SendFirst(o)
  \/ \E o \in SendOutcomes : SendAlternative(o)
  \/ \E o \in SendOutcomes : SendConfirmation(o)
  \/ HandleMentionsReturn


(***************************************************************************)
(* processMessage and the messages.upsert handler (messageHandler.js)      *)
(*                                                                         *)
(* Every messages.upsert event starts a task; tasks interleave at their    *)
(* awaits.  An event carries one message here.                             *)
(***************************************************************************)
\* 500 of 1000: Array.slice(-500) keeps the most recent half
ProcessedKeep == ProcessedLimit \div 2

InboundMessages ==
  { [id |-> "m1", isGroup |-> TRUE, mentions |-> TRUE, fromMe |-> FALSE],
    [id |-> "m2", isGroup |-> TRUE, mentions |-> FALSE, fromMe |-> FALSE],
    [id |-> "m3", isGroup |-> FALSE, mentions |-> FALSE, fromMe |-> FALSE],
    [id |-> "m4", isGroup |-> FALSE, mentions |-> FALSE, fromMe |-> TRUE],
    [id |-> "m5", isGroup |-> FALSE, mentions |-> TRUE, fromMe |-> FALSE],
    [id |-> Undefined, isGroup |-> FALSE, mentions |-> FALSE, fromMe |-> FALSE] }

\* Set.prototype.add on a Set kept as the sequence of its insertion order
SetAdd(s, x) == IF x \in Range(s) THEN s ELSE Append(s, x)

\* a variant whose trim keeps the oldest identifiers
RememberProcessedKeepsOldest(s, id) ==
  LET s1 == SetAdd(s, id)
  IN IF Len(s1) > ProcessedLimit THEN SubSeq(s1, 1, ProcessedKeep) ELSE s1
\* global.processedMessages.add(messageId) and the trim that follows it
RememberProcessed(s, id) ==
  LET s1 == SetAdd(s, id)
  IN IF Len(s1) > ProcessedLimit
     THEN SubSeq(s1, Len(s1) - ProcessedKeep + 1, Len(s1))
     ELSE s1


InboundInit ==
  /\ processedMessages = <<>>
  /\ tasks = <<>>

\* const isProcessed = global.processedMessages && global.processedMessages.has(messageId)
IsProcessed(msg) == msg.id \in Range(processedMessages)

\* processMessage from "Extract message text" on: no await up to the call of
\* handleMentions or sendAutoReply
DecideWithoutCheck(msg) ==
  IF msg.id # Undefined
  THEN [pc |-> "acting",
        action |-> IF msg.isGroup /\ msg.mentions THEN "mentions" ELSE "autoreply"]
  ELSE [pc |-> "finished", action |-> "none"]
\* a variant that extracts mentions from direct messages too
DecideMentionsAnywhere(msg) ==
  IF ~IsProcessed(msg) /\ msg.id # Undefined
  THEN [pc |-> "acting",
        action |-> IF msg.mentions THEN "mentions" ELSE "autoreply"]
  ELSE [pc |-> "finished", action |-> "none"]
\* msg.mentions: the text holds a number or a name that the extraction
\* finds; the extraction runs on group messages only
Decide(msg) ==
  IF ~IsProcessed(msg) /\ msg.id # Undefined
  THEN [pc |-> "acting",
        action |-> IF msg.isGroup /\ msg.mentions THEN "mentions" ELSE "autoreply"]
  ELSE [pc |-> "finished", action |-> "none"]

\* the handler after "await processMessage(...)": messageStore.add(processedMsg);
\* it follows the return of processMessage with no event in between
StoreProcessed(done, msg) ==
  IF done
  THEN /\ storeCalls' = storeCalls + 1
       /\ coreMessages' = CoreAdd(coreMessages, [hasKey |-> TRUE, id |-> msg.id],
                                  storeCalls + 1)
  ELSE UNCHANGED <<coreMessages, storeCalls>>

\* sock.ev.on('messages.upsert'): the handler runs up to its first event
Deliver(msg) ==
  /\ Len(tasks) < MaxDeliveries
  /\ IF msg.fromMe
     THEN /\ tasks' = Append(tasks, [msg |-> msg, pc |-> "finished", action |-> "none"])
          /\ UNCHANGED <<processedMessages, coreMessages, storeCalls>>
     ELSE IF msg.isGroup
     THEN /\ tasks' = Append(tasks, [msg |-> msg, pc |-> "metadata", action |-> "none"])
          /\ UNCHANGED <<processedMessages, coreMessages, storeCalls>>
     ELSE LET d == Decide(msg)
          IN /\ tasks' = Append(tasks, [msg |-> msg, pc |-> d.pc, action |-> d.action])
             /\ processedMessages' = IF d.action # "none"
                                     THEN RememberProcessed(processedMessages, msg.id)
                                     ELSE processedMessages
             /\ StoreProcessed(d.pc = "finished", msg)
  /\ UNCHANGED <<mentionVars, legacyMessages, messageQueue, lastCall, laterVars>>

\* await sock.groupMetadata(jid) resumes (resolved or rejected)
GroupMetadata(i) ==
  /\ i \in 1..Len(tasks)
  /\ tasks[i].pc = "metadata"
  /\ LET d == Decide(tasks[i].msg)
     IN /\ tasks' = [tasks EXCEPT ![i].pc = d.pc, ![i].action = d.action]
        /\ processedMessages' = IF d.action # "none"
                                THEN RememberProcessed(processedMessages, tasks[i].msg.id)
                                ELSE processedMessages
        /\ StoreProcessed(d.pc = "finished", tasks[i].msg)
  /\ UNCHANGED <<mentionVars, legacyMessages, messageQueue, lastCall, laterVars>>

\* await handleMentions(...) or await sendAutoReply(...) resumes; processMessage
\* returns and the handler stores the message
ActionDone(i) ==
  /\ i \in 1..Len(tasks)
  /\ tasks[i].pc = "acting"
  /\ tasks' = [tasks EXCEPT ![i].pc = "finished"]
  /\ StoreProcessed(TRUE, tasks[i].msg)
  /\ UNCHANGED processedMessages
  /\ UNCHANGED <<mentionVars, legacyMessages, messageQueue, lastCall, laterVars>>

InboundNext ==
  \/ \E msg \in InboundMessages : Deliver(msg)
  \/ \E i \in 1..MaxDeliveries : GroupMetadata(i)
  \/ \E i \in 1..MaxDeliveries : ActionDone(i)

(***************************************************************************)
(* userDataService (second half of mentionService.js): conversation        *)
(* records persisted one file per entity.                                  *)
(*                                                                         *)
(* A record keeps what the functions below read or write: userId, isGroup, *)
(* profile.name, conversation, participants (name per sender id),          *)
(* preferences.language and stats.messageCount.  A conversation entry is   *)
(* [tag, fromMe]: tag is the number of the call that appended it.  Display *)
(* names are opaque strings here; Null stands for every falsy name (null,  *)
(* undefined, '').  File writes are taken to succeed.                      *)
(***************************************************************************)
Null == "null"
\* participants[id] is undefined
Absent == "absent"
UnknownUser == "Unknown User"
\* a profileInfo object without the key
NoKey == "nokey"

Truthy(v) == v \notin {Null, Absent, NoKey}

AlphaNum == {"1", "9", "s", "g"}
\* two direct addresses that differ in one separator, and a group address
DirectA == <<"1", ":", "1", "@", "s">>
DirectB == <<"1", "_", "1", "@", "s">>
GroupG == <<"9", "@", "g">>
Entities == { [id |-> DirectA, isGroup |-> FALSE],
              [id |-> DirectB, isGroup |-> FALSE],
              [id |-> GroupG, isGroup |-> TRUE] }
Member == <<"p", "1">>
\* message.key.participant is undefined
NoSender == <<>>
SenderIds == {Member, DirectA, DirectB}

\* userId.replace(/[^a-zA-Z0-9]/g, '_') under the collection's directory
GetUserDataPath(userId, isGroup) ==
  [dir |-> IF isGroup THEN "groups" ELSE "inbox",
   file |-> [i \in 1..Len(userId) |->
               IF userId[i] \in AlphaNum THEN userId[i] ELSE "_"]]

Paths == {GetUserDataPath(e.id, e.isGroup) : e \in Entities}

DefaultRecord(userId, isGroup) ==
  [userId |-> userId, isGroup |-> isGroup, name |-> Null,
   conversation |-> <<>>,
   participants |-> [s \in SenderIds |-> Absent],
   language |-> "auto", messageCount |-> 0, topParticipants |-> <<>>]

\* a file: kind is "absent" (fs.existsSync is false), "corrupt" (JSON.parse
\* throws) or "record" (data is the parsed record)
NoData == DefaultRecord(<<>>, FALSE)
AbsentFile == [kind |-> "absent", data |-> NoData]
CorruptFile == [kind |-> "corrupt", data |-> NoData]
RecordFile(userData) == [kind |-> "record", data |-> userData]

\* a variant that persists the skeleton it returns
LoadUserDataCreates(fs, userId, isGroup) ==
  LET path == GetUserDataPath(userId, isGroup)
  IN IF fs[path].kind # "record"
     THEN [ret |-> DefaultRecord(userId, isGroup), threw |-> FALSE,
           files |-> [fs EXCEPT ![path] = RecordFile(DefaultRecord(userId, isGroup))]]
     ELSE [ret |-> fs[path].data, threw |-> FALSE, files |-> fs]
\* what loadUserData returns, whether it threw, and the directory afterwards
LoadUserData(fs, userId, isGroup) ==
  LET path == GetUserDataPath(userId, isGroup)
  IN IF fs[path].kind # "record"
     THEN [ret |-> DefaultRecord(userId, isGroup), threw |-> FALSE, files |-> fs]
     ELSE [ret |-> fs[path].data, threw |-> FALSE, files |-> fs]

SaveUserData(fs, userId, isGroup, userData) ==
  [fs EXCEPT ![GetUserDataPath(userId, isGroup)] = RecordFile(userData)]

\* conversation.slice(-maxConversationLength) once the bound is exceeded
TrimHistoryKeepsOldest(c) ==
  IF Len(c) > HistoryBound THEN SubSeq(c, 1, HistoryBound) ELSE c
TrimHistory(c) ==
  IF Len(c) > HistoryBound THEN SubSeq(c, Len(c) - HistoryBound + 1, Len(c)) ELSE c

\* the sender a message is attributed to
SenderOf(userId, isGroup, message) ==
  IF isGroup /\ message.participant # NoSender THEN message.participant ELSE userId

\* Array.prototype.sort((a, b) => b.messageCount - a.messageCount): stable,
\* an entry goes behind the entries that count at least as much
InsertByCount(sorted, e) ==
  LET k == Cardinality({i \in 1..Len(sorted) : sorted[i].messageCount >= e.messageCount})
  IN SubSeq(sorted, 1, k) \o <<e>> \o SubSeq(sorted, k + 1, Len(sorted))
RECURSIVE SortByCount(_)
SortByCount(s) ==
  IF s = <<>> THEN <<>>
  ELSE InsertByCount(SortByCount(SubSeq(s, 1, Len(s) - 1)), s[Len(s)])

\* a variant that leaves the list in insertion order
UpdateTopParticipantsUnsorted(top, senderId) ==
  LET found == {i \in 1..Len(top) : top[i].id = senderId}
      counted == IF found # {}
                 THEN [i \in 1..Len(top) |->
                         IF i \in found THEN [top[i] EXCEPT !.messageCount = @ + 1]
                         ELSE top[i]]
                 ELSE Append(top, [id |-> senderId, messageCount |-> 1])
  IN IF Len(counted) > TopLimit THEN SubSeq(counted, 1, TopLimit) ELSE counted
\* "Update top participants for groups": stats.topParticipants after a
\* message of senderId
UpdateTopParticipants(top, senderId) ==
  LET found == {i \in 1..Len(top) : top[i].id = senderId}
      existingParticipantIndex == CHOOSE i \in found : \A j \in found : i <= j
      counted == IF found # {}
                 THEN [top EXCEPT ![existingParticipantIndex].messageCount = @ + 1]
                 ELSE Append(top, [id |-> senderId, messageCount |-> 1])
      sorted == SortByCount(counted)
  IN IF Len(sorted) > TopLimit THEN SubSeq(sorted, 1, TopLimit) ELSE sorted

\* addMessageToConversation: the directory after the call
AddMessageToConversation(fs, userId, isGroup, message, fromMe, tag) ==
  LET loaded == LoadUserData(fs, userId, isGroup)
      userData == loaded.ret
      senderId == SenderOf(userId, isGroup, message)
      existing == userData.participants[senderId]
      \* "Update or add participant info"
      name1 == IF Truthy(message.pushName) THEN message.pushName
               ELSE IF Truthy(existing) THEN existing ELSE UnknownUser
      \* messageObj.sender.name
      senderName == IF Truthy(message.pushName) THEN message.pushName ELSE UnknownUser
      \* "Update top participants for groups": sender.name is never falsy
      name2 == IF isGroup THEN senderName ELSE name1
      parts == IF fromMe THEN userData.participants
               ELSE [userData.participants EXCEPT ![senderId] = name2]
      profileName ==
        IF fromMe THEN userData.name
        ELSE IF ~isGroup /\ Truthy(message.pushName) THEN message.pushName
        ELSE IF isGroup /\ Truthy(message.groupSubject) THEN message.groupSubject
        ELSE userData.name
  IN SaveUserData(loaded.files, userId, isGroup,
       [userData EXCEPT
          !.conversation = TrimHistory(Append(@, [tag |-> tag, fromMe |-> fromMe])),
          !.participants = parts,
          !.name = profileName,
          !.messageCount = @ + 1,
          !.topParticipants = IF ~fromMe /\ isGroup
                              THEN UpdateTopParticipants(@, senderId) ELSE @])

\* no participants / preferences in additionalData
NoPatch == <<>>

\* a variant that writes a fresh stats object with the profile
UpdateUserProfileResetsStats(fs, userId, isGroup, profileInfo, additionalData) ==
  LET loaded == LoadUserData(fs, userId, isGroup)
      userData == loaded.ret
  IN SaveUserData(loaded.files, userId, isGroup,
       [userData EXCEPT
          !.name = IF profileInfo.name = NoKey THEN @ ELSE profileInfo.name,
          !.language = IF additionalData.language = Null THEN @
                       ELSE additionalData.language,
          !.messageCount = 0])
\* updateUserProfile: profileInfo is [name], additionalData is
\* [participants, language]; participants is a function id -> name
UpdateUserProfile(fs, userId, isGroup, profileInfo, additionalData) ==
  LET loaded == LoadUserData(fs, userId, isGroup)
      userData == loaded.ret
      patch == additionalData.participants
      parts == [s \in SenderIds |->
                  IF patch # NoPatch /\ s \in DOMAIN patch
                  THEN IF Truthy(patch[s]) THEN patch[s]
                       ELSE IF Truthy(userData.participants[s])
                            THEN userData.participants[s] ELSE Null
                  ELSE userData.participants[s]]
  IN SaveUserData(loaded.files, userId, isGroup,
       [userData EXCEPT
          !.name = IF profileInfo.name = NoKey THEN @ ELSE profileInfo.name,
          !.participants = parts,
          !.language = IF additionalData.language = Null THEN @
                       ELSE additionalData.language])

\* a text is a sequence of character classes
CharClasses == {"bn", "ar", "hi", "en", " ", "?"}
IsBlank(text) == \A i \in 1..Len(text) : text[i] = " "
\* the Latin letters that have a name of their own (the other ones are "en")
LatinLetters == {"k", "i", "K"}
ClassOf(c) == IF c \in LatinLetters THEN "en" ELSE c
Has(text, class) == \E i \in 1..Len(text) : ClassOf(text[i]) = class
DetectedLanguage(text) ==
  IF IsBlank(text) THEN "auto"
  ELSE IF Has(text, "bn") THEN "bn"
  ELSE IF Has(text, "ar") THEN "ar"
  ELSE IF Has(text, "hi") THEN "hi"
  ELSE IF Has(text, "en") THEN "en"
  ELSE "auto"

\* a variant that persists every detected code
DetectAndOverwriteLanguage(fs, userId, isGroup, messageText) ==
  LET detected == DetectedLanguage(messageText)
  IN [ret |-> detected,
      files |-> IF detected # "auto"
                THEN UpdateUserProfile(fs, userId, isGroup, [name |-> NoKey],
                       [participants |-> NoPatch, language |-> detected])
                ELSE fs]
\* detectAndUpdateLanguage: the code returned and the directory afterwards
DetectAndUpdateLanguage(fs, userId, isGroup, messageText) ==
  LET detected == DetectedLanguage(messageText)
      userData == LoadUserData(fs, userId, isGroup).ret
  IN [ret |-> detected,
      files |-> IF detected # "auto" /\ userData.language = "auto"
                THEN UpdateUserProfile(fs, userId, isGroup, [name |-> NoKey],
                       [participants |-> NoPatch, language |-> detected])
                ELSE fs]

\* ---- the calls explored ----
DisplayNames == {"Al"}
Subject == "G"

\* inbound messages (and the bot's own reply) given to addMessageToConversation
AddInputs(e) ==
  {[fromMe |-> FALSE, participant |-> IF e.isGroup THEN Member ELSE NoSender,
    pushName |-> n, groupSubject |-> g] :
      n \in DisplayNames \cup {Null},
      g \in IF e.isGroup THEN {Null, Subject} ELSE {Null}}
  \cup {[fromMe |-> TRUE, participant |-> NoSender, pushName |-> Null, groupSubject |-> Null]}

\* the sender id a patch for entity e is about
PatchTarget(e) == IF e.isGroup THEN Member ELSE e.id

UpdateInputs(e) ==
  {[name |-> Subject, participants |-> NoPatch, carried |-> Null]}
  \cup {[name |-> NoKey, participants |-> [s \in {PatchTarget(e)} |-> n], carried |-> n] :
          n \in DisplayNames \cup {Null}}

TextInputs == {<<"bn">>, <<"en">>, <<"en", "bn">>, <<"hi", "ar">>, <<" ">>}

NoRec == [op |-> "none", entity |-> [id |-> <<>>, isGroup |-> FALSE],
          carried |-> Null, ret |-> NoData, code |-> Null, threw |-> FALSE]

RecordInit ==
  /\ files \in {[p \in Paths |-> AbsentFile],
                [p \in Paths |-> IF p.dir = "inbox" THEN CorruptFile ELSE AbsentFile],
                [p \in Paths |-> IF p.dir = "groups" THEN CorruptFile ELSE AbsentFile]}
  /\ appendLog = [p \in Paths |-> <<>>]
  /\ recCalls = 0
  /\ lastRec = NoRec

RecAddMessage(e, message) ==
  /\ recCalls < MaxRecordCalls
  /\ recCalls' = recCalls + 1
  /\ files' = AddMessageToConversation(files, e.id, e.isGroup, message,
                                       message.fromMe, recCalls + 1)
  /\ appendLog' = [appendLog EXCEPT ![GetUserDataPath(e.id, e.isGroup)] =
                     Append(@, [tag |-> recCalls + 1, for |-> e.id])]
  /\ lastRec' = [op |-> IF message.fromMe THEN "reply" ELSE "add", entity |-> e,
                 carried |-> message.pushName,
                 ret |-> files'[GetUserDataPath(e.id, e.isGroup)].data,
                 code |-> Null, threw |-> FALSE]
  /\ UNCHANGED <<storeVars, mentionVars, inboundVars, resolveVars, queueVars, pipeVars, textVars, commandVars, connVars>>

RecUpdateProfile(e, patch) ==
  /\ recCalls < MaxRecordCalls
  /\ recCalls' = recCalls + 1
  /\ files' = UpdateUserProfile(files, e.id, e.isGroup, [name |-> patch.name],
                [participants |-> patch.participants, language |-> Null])
  /\ lastRec' = [op |-> "update", entity |-> e, carried |-> patch.carried,
                 ret |-> files'[GetUserDataPath(e.id, e.isGroup)].data,
                 code |-> Null, threw |-> FALSE]
  /\ UNCHANGED appendLog
  /\ UNCHANGED <<storeVars, mentionVars, inboundVars, resolveVars, queueVars, pipeVars, textVars, commandVars, connVars>>

RecDetectLanguage(e, text) ==
  /\ recCalls < MaxRecordCalls
  /\ recCalls' = recCalls + 1
  /\ LET r == DetectAndUpdateLanguage(files, e.id, e.isGroup, text)
     IN /\ files' = r.files
        /\ lastRec' = [op |-> "detect", entity |-> e, carried |-> DetectedLanguage(text),
                       ret |-> NoData, code |-> r.ret, threw |-> FALSE]
  /\ UNCHANGED appendLog
  /\ UNCHANGED <<storeVars, mentionVars, inboundVars, resolveVars, queueVars, pipeVars, textVars, commandVars, connVars>>

RecLoad(e) ==
  /\ recCalls < MaxRecordCalls
  /\ recCalls' = recCalls + 1
  /\ LET r == LoadUserData(files, e.id, e.isGroup)
     IN /\ files' = r.files
        /\ lastRec' = [op |-> "load", entity |-> e, carried |-> Null,
                       ret |-> r.ret, code |-> Null, threw |-> r.threw]
  /\ UNCHANGED appendLog
  /\ UNCHANGED <<storeVars, mentionVars, inboundVars, resolveVars, queueVars, pipeVars, textVars, commandVars, connVars>>

RecordNext ==
  \/ \E e \in Entities : \E message \in AddInputs(e) : RecAddMessage(e, message)
  \/ \E e \in Entities : \E patch \in UpdateInputs(e) : RecUpdateProfile(e, patch)
  \/ \E e \in Entities : \E text \in TextInputs : RecDetectLanguage(e, text)
  \/ \E e \in Entities : RecLoad(e)

\* ---- the ranking of a group's senders ----
GroupEntity == [id |-> GroupG, isGroup |-> TRUE]

\* inbound group messages of every sender, and the bot's own reply
TopInputs ==
  {[fromMe |-> FALSE, participant |-> s, pushName |-> Null, groupSubject |-> Null] :
     s \in SenderIds}
  \cup {[fromMe |-> TRUE, participant |-> NoSender, pushName |-> Null, groupSubject |-> Null]}

TopInit ==
  /\ files = [p \in Paths |-> AbsentFile]
  /\ appendLog = [p \in Paths |-> <<>>]
  /\ recCalls = 0
  /\ lastRec = NoRec

TopAddMessage(message) ==
  /\ recCalls < MaxTopAdds
  /\ recCalls' = recCalls + 1
  /\ files' = AddMessageToConversation(files, GroupEntity.id, TRUE, message,
                                       message.fromMe, recCalls + 1)
  /\ appendLog' = [appendLog EXCEPT ![GetUserDataPath(GroupEntity.id, TRUE)] =
                     Append(@, [tag |-> recCalls + 1, for |-> GroupEntity.id,
                                sender |-> message.participant])]
  /\ lastRec' = [op |-> IF message.fromMe THEN "reply" ELSE "add", entity |-> GroupEntity,
                 carried |-> message.pushName,
                 ret |-> files'[GetUserDataPath(GroupEntity.id, TRUE)].data,
                 code |-> Null, threw |-> FALSE]
  /\ UNCHANGED <<storeVars, mentionVars, inboundVars, resolveVars, queueVars, pipeVars, textVars, commandVars, connVars>>

TopNext == \E message \in TopInputs : TopAddMessage(message)

RecordIdle ==
  /\ files = [p \in Paths |-> AbsentFile]
  /\ appendLog = [p \in Paths |-> <<>>]
  /\ recCalls = 0
  /\ lastRec = NoRec

(***************************************************************************)
(* findPhoneNumberByName applied to a data directory and a name            *)
(***************************************************************************)
\* display names stored in records, and the names looked up
StoredNames == { NoName, <<"A", "l">>, <<"A", "l", "i">>, <<"B", "o">> }
LookupNames == { <<"a", "l">>, <<" ", "A", "l", "i", " ">>, <<"B", "o", "b">>,
                 <<"Z", "z">> }
ResolveInboxRecords ==
  { [userId |-> <<d>> \o WhatsAppSuffix, name |-> n] : d \in {"1", "2"}, n \in StoredNames }
ResolveParticipants ==
  { [id |-> <<"0">> \o WhatsAppSuffix, name |-> n] : n \in StoredNames }
ResolveDirs ==
  { [inbox |-> i,
     groups |-> << [userId |-> <<"9">> \o GroupSuffix, participants |-> p] >>] :
       i \in SeqUpTo(ResolveInboxRecords, MaxResolveRecords),
       p \in SeqUpTo(ResolveParticipants, MaxResolveRecords) }

ResolveInit ==
  /\ resolveDir \in ResolveDirs
  /\ resolveName \in LookupNames
  /\ resolveResult = <<>>
  /\ resolveDone = FALSE

Resolve ==
  /\ ~resolveDone
  /\ resolveDone' = TRUE
  /\ resolveResult' = FindPhoneNumberByName(resolveDir, resolveName)
  /\ UNCHANGED <<resolveDir, resolveName>>
  /\ UNCHANGED <<storeVars, mentionVars, inboundVars, recordVars, queueVars, pipeVars, textVars, commandVars, connVars>>

ResolveNext == Resolve

ResolveIdle ==
  /\ resolveDir = [inbox |-> <<>>, groups |-> <<>>]
  /\ resolveName = <<>>
  /\ resolveResult = <<>>
  /\ resolveDone = TRUE

(***************************************************************************)
(* The reply queue (messageHandler.js): queueReply, processReplyQueue and  *)
(* sendReply.  A queued reply is [n, kind]: n is the number of the         *)
(* queueReply call, kind is "valid", "noText" (fails the first validation  *)
(* of processReplyQueue) or "badJid" (a jid without '@').                  *)
(***************************************************************************)
ReplyKinds == {"valid", "noText", "badJid"}

\* Array.prototype.shift (no effect on an empty array)
Shift(q) == IF q = <<>> THEN q ELSE Tail(q)

\* a processReplyQueue that never schedules its next run
RearmNever(q, t) == t

\* "if (replyQueue.length > 0) setTimeout(processReplyQueue, 500)"
Rearm(q, t) == IF Len(q) > 0 THEN t + 1 ELSE t

\* the finally block of processReplyQueue
Finally(st) ==
  LET q == Shift(st.queue)
  IN [st EXCEPT !.queue = q, !.timers = Rearm(q, st.timers)]

\* processReplyQueue from its call to its first await or to its return;
\* st is [queue, timers, flying, handed]
ProcessReplyQueue(st) ==
  IF st.queue = <<>> THEN st
  ELSE LET reply == Head(st.queue)
       IN IF reply.kind # "valid"
          THEN \* shift, re-arm, return: the finally block then runs as well
               LET q == Shift(st.queue)
               IN Finally([st EXCEPT !.queue = q, !.timers = Rearm(q, st.timers)])
          ELSE \* sendReply runs up to "await sock.sendMessage(...)"
               [st EXCEPT !.flying = Append(@, reply.n),
                          !.handed = Append(@, reply.n)]

QueueState == [queue |-> replyQueue, timers |-> timers, flying |-> flying,
               handed |-> handed]

SetQueueState(st) ==
  /\ replyQueue' = st.queue
  /\ timers' = st.timers
  /\ flying' = st.flying
  /\ handed' = st.handed

QueueInit ==
  /\ replyQueue = <<>>
  /\ timers = 0
  /\ flying = <<>>
  /\ handed = <<>>
  /\ queued = <<>>

\* queueReply(sock, jid, text, quotedMsg)
QueueReply(kind) ==
  /\ Len(queued) < MaxQueued
  /\ LET reply == [n |-> Len(queued) + 1, kind |-> kind]
         st == [QueueState EXCEPT !.queue = Append(@, reply)]
     IN /\ queued' = Append(queued, reply)
        /\ SetQueueState(IF Len(st.queue) = 1 THEN ProcessReplyQueue(st) ELSE st)
  /\ UNCHANGED <<storeVars, mentionVars, inboundVars, recordVars, resolveVars, pipeVars, textVars, commandVars, connVars>>

\* a setTimeout(processReplyQueue, 500) callback runs
TimerFires ==
  /\ timers > 0
  /\ SetQueueState(ProcessReplyQueue([QueueState EXCEPT !.timers = @ - 1]))
  /\ UNCHANGED queued
  /\ UNCHANGED <<storeVars, mentionVars, inboundVars, recordVars, resolveVars, pipeVars, textVars, commandVars, connVars>>

\* "await sendReply(...)" resumes, resolved or rejected: catch, then finally
SendSettles(i) ==
  /\ i \in 1..Len(flying)
  /\ SetQueueState(Finally([QueueState EXCEPT
       !.flying = SubSeq(@, 1, i - 1) \o SubSeq(@, i + 1, Len(@))]))
  /\ UNCHANGED queued
  /\ UNCHANGED <<storeVars, mentionVars, inboundVars, recordVars, resolveVars, pipeVars, textVars, commandVars, connVars>>

QueueNext ==
  \/ \E kind \in ReplyKinds : QueueReply(kind)
  \/ TimerFires
  \/ \E i \in 1..MaxQueued : SendSettles(i)

QueueIdle == QueueInit

(***************************************************************************)
(* processMessage and sendAutoReply (messageHandler.js) with the records   *)
(* they read and write.  A task is one call of processMessage; it keeps    *)
(* the locals that live across an await: existingData (the record loaded   *)
(* before the group-metadata fetch), and, as history, the tags under which *)
(* the inbound message and the reply were appended (0: not appended).      *)
(* prefs.ai.enabled has its default value (AI replies are on).             *)
(***************************************************************************)
UnknownGroup == "Unknown Group"
\* jid.split('@')[0] of the group address, as a profile name
JidPrefixName == "9"

PipeMessages ==
  { [id |-> "m1", jid |-> GroupG, isGroup |-> TRUE, participant |-> Member,
     pushName |-> "Al", text |-> <<"en">>, mentions |-> FALSE],
    [id |-> "m2", jid |-> GroupG, isGroup |-> TRUE, participant |-> Member,
     pushName |-> "Al", text |-> <<"en">>, mentions |-> TRUE],
    [id |-> "m3", jid |-> GroupG, isGroup |-> TRUE, participant |-> Member,
     pushName |-> Null, text |-> <<>>, mentions |-> FALSE],
    [id |-> "m4", jid |-> DirectA, isGroup |-> FALSE, participant |-> NoSender,
     pushName |-> "Al", text |-> <<"bn">>, mentions |-> FALSE],
    [id |-> "m5", jid |-> DirectA, isGroup |-> FALSE, participant |-> NoSender,
     pushName |-> Null, text |-> <<>>, mentions |-> FALSE],
    [id |-> "m6", jid |-> GroupG, isGroup |-> TRUE, participant |-> Member,
     pushName |-> "Bo", text |-> <<"en">>, mentions |-> FALSE] }

\* how "await sock.groupMetadata(jid)" ends: rejected, or resolved with a
\* subject (possibly missing) and with or without a participant list
MetaOutcomes ==
  { [ok |-> FALSE, subject |-> Null, participants |-> FALSE],
    [ok |-> TRUE, subject |-> Subject, participants |-> TRUE],
    [ok |-> TRUE, subject |-> UnknownGroup, participants |-> TRUE],
    [ok |-> TRUE, subject |-> Null, participants |-> FALSE] }

NoAdditional == [participants |-> NoPatch, language |-> Null]

\* the message object addMessageToConversation is given
AsStored(msg) ==
  [participant |-> msg.participant, pushName |-> msg.pushName, groupSubject |-> Null]
ReplyMessage == [participant |-> NoSender, pushName |-> Null, groupSubject |-> Null]

\* getGroupName(message, sock) for a group message without groupMetadata
GetGroupName(msg) == JidPrefixName

\* participantsData of processMessage: the participants of existingData,
\* then one entry per participant of the fetched metadata (here: Member,
\* whose metadata entry has no name)
ParticipantsData(t) ==
  LET ids == {s \in SenderIds : t.existingParts[s] # Absent} \cup {Member}
  IN [s \in ids |->
        IF s = Member
        THEN IF t.msg.participant = Member /\ Truthy(t.msg.pushName)
             THEN t.msg.pushName
             ELSE IF Truthy(t.existingParts[Member]) THEN t.existingParts[Member]
             ELSE Null
        ELSE t.existingParts[s]]

\* processMessage, the group branch after the metadata fetch has ended:
\* the directory afterwards
AfterMetadata(fs, t, outcome) ==
  LET kept == IF ~outcome.ok /\ Truthy(t.existingName) THEN t.existingName ELSE Null
      groupName == IF outcome.ok /\ Truthy(outcome.subject) THEN outcome.subject
                   ELSE IF Truthy(kept) THEN kept
                   ELSE GetGroupName(t.msg)
  IN IF groupName = UnknownGroup THEN fs
     ELSE IF outcome.ok /\ outcome.participants
     THEN UpdateUserProfile(fs, t.msg.jid, TRUE, [name |-> groupName],
            [participants |-> ParticipantsData(t), language |-> Null])
     ELSE UpdateUserProfile(fs, t.msg.jid, TRUE, [name |-> groupName], NoAdditional)

\* a variant whose profile update saves the record loaded before the append
AutoReplyRecordsStaleSave(fs, msg, tag) ==
  LET userData == LoadUserData(fs, msg.jid, msg.isGroup).ret
      fs1 == AddMessageToConversation(fs, msg.jid, msg.isGroup, AsStored(msg), FALSE, tag)
      fs2 == IF Truthy(msg.pushName) /\ ~Truthy(userData.name)
             THEN SaveUserData(fs1, msg.jid, msg.isGroup,
                               [userData EXCEPT !.name = msg.pushName])
             ELSE fs1
  IN DetectAndUpdateLanguage(fs2, msg.jid, msg.isGroup, msg.text).files
\* sendAutoReply from "Load user conversation history" to the await of
\* getChatCompletion: the directory afterwards
AutoReplyRecords(fs, msg, tag) ==
  LET userData == LoadUserData(fs, msg.jid, msg.isGroup).ret
      fs1 == AddMessageToConversation(fs, msg.jid, msg.isGroup, AsStored(msg), FALSE, tag)
      fs2 == IF Truthy(msg.pushName) /\ ~Truthy(userData.name)
             THEN UpdateUserProfile(fs1, msg.jid, msg.isGroup, [name |-> msg.pushName],
                                    NoAdditional)
             ELSE fs1
  IN DetectAndUpdateLanguage(fs2, msg.jid, msg.isGroup, msg.text).files

\* the directory after one earlier group message ("m1", with a reply of the
\* bot) has been handled from an empty directory
SeededFiles ==
  LET msg == CHOOSE m \in PipeMessages : m.id = "m1"
      t == [msg |-> msg, existingName |-> Null,
            existingParts |-> [s \in SenderIds |-> Absent]]
      fs1 == AfterMetadata([p \in Paths |-> AbsentFile], t,
                           [ok |-> TRUE, subject |-> Subject, participants |-> TRUE])
      fs2 == AutoReplyRecords(fs1, msg, 1)
  IN AddMessageToConversation(fs2, msg.jid, TRUE, ReplyMessage, TRUE, 2)

\* an empty data directory, or the one an earlier message left
PipeInit ==
  /\ outbox = <<>>
  /\ tasks = <<>>
  /\ lastRec = NoRec
  /\ \/ /\ processedMessages = <<>>
        /\ files = [p \in Paths |-> AbsentFile]
        /\ appendLog = [p \in Paths |-> <<>>]
        /\ recCalls = 0
     \/ /\ processedMessages = <<"m1">>
        /\ files = SeededFiles
        /\ appendLog = [p \in Paths |->
                          IF p = GetUserDataPath(GroupG, TRUE)
                          THEN <<[tag |-> 1, for |-> GroupG], [tag |-> 2, for |-> GroupG]>>
                          ELSE <<>>]
        /\ recCalls = 2

\* processMessage of task i from "Extract message text" to its next await
\* or its return; fs is the directory the group branch left
PipeContinue(ts, i, fs) ==
  LET msg == ts[i].msg
      fs1 == IF Truthy(msg.pushName) /\ ~msg.isGroup
             THEN UpdateUserProfile(fs, msg.jid, FALSE, [name |-> msg.pushName],
                                    NoAdditional)
             ELSE fs
      d == Decide(msg)
      tag == recCalls + 1
  IN IF d.action = "none"
     THEN /\ tasks' = [ts EXCEPT ![i].pc = "finished"]
          /\ files' = fs1
          /\ UNCHANGED <<processedMessages, appendLog, recCalls, outbox>>
     ELSE /\ processedMessages' = RememberProcessed(processedMessages, msg.id)
          /\ IF d.action = "mentions"
             THEN /\ tasks' = [ts EXCEPT ![i].pc = "mentions", ![i].action = "mentions"]
                  /\ files' = fs1
                  /\ UNCHANGED <<appendLog, recCalls, outbox>>
             ELSE IF msg.text # <<>>
             THEN /\ tasks' = [ts EXCEPT ![i].pc = "ai", ![i].action = "autoreply",
                                         ![i].inTag = tag]
                  /\ files' = AutoReplyRecords(fs1, msg, tag)
                  /\ appendLog' = [appendLog EXCEPT
                                     ![GetUserDataPath(msg.jid, msg.isGroup)] =
                                       Append(@, [tag |-> tag, for |-> msg.jid])]
                  /\ recCalls' = tag
                  /\ UNCHANGED outbox
             ELSE \* no text: the default reply goes straight to sock.sendMessage
                  /\ tasks' = [ts EXCEPT ![i].pc = "send", ![i].action = "autoreply"]
                  /\ files' = fs1
                  /\ outbox' = Append(outbox, [task |-> i, stored |-> FALSE, result |-> "pending"])
                  /\ UNCHANGED <<appendLog, recCalls>>

\* processMessage is called with an inbound message
PipeDeliver(msg) ==
  /\ Len(tasks) < MaxPipeline
  /\ LET existing == LoadUserData(files, msg.jid, msg.isGroup).ret
         t == [msg |-> msg, pc |-> "metadata", action |-> "none",
               existingName |-> existing.name, existingParts |-> existing.participants,
               inTag |-> 0, replyTag |-> 0]
     IN IF msg.isGroup
        THEN /\ tasks' = Append(tasks, t)
             /\ UNCHANGED <<processedMessages, files, appendLog, recCalls, outbox>>
        ELSE PipeContinue(Append(tasks, t), Len(tasks) + 1, files)
  /\ UNCHANGED <<storeVars, mentionVars, resolveVars, queueVars, lastRec, textVars, commandVars, connVars>>

\* "await sock.groupMetadata(jid)" ends
PipeGroupMetadata(i, outcome) ==
  /\ i \in 1..Len(tasks)
  /\ tasks[i].pc = "metadata"
  /\ PipeContinue(tasks, i, AfterMetadata(files, tasks[i], outcome))
  /\ UNCHANGED <<storeVars, mentionVars, resolveVars, queueVars, lastRec, textVars, commandVars, connVars>>

\* "await getChatCompletion(aiMessages)" returns (it never throws): the
\* reply is appended to the history and given to sock.sendMessage
PipeAiDone(i) ==
  /\ i \in 1..Len(tasks)
  /\ tasks[i].pc = "ai"
  /\ LET msg == tasks[i].msg
         tag == recCalls + 1
     IN /\ files' = AddMessageToConversation(files, msg.jid, msg.isGroup, ReplyMessage,
                                             TRUE, tag)
        /\ appendLog' = [appendLog EXCEPT ![GetUserDataPath(msg.jid, msg.isGroup)] =
                           Append(@, [tag |-> tag, for |-> msg.jid])]
        /\ recCalls' = tag
        /\ tasks' = [tasks EXCEPT ![i].pc = "send", ![i].replyTag = tag]
        /\ outbox' = Append(outbox, [task |-> i, stored |-> TRUE, result |-> "pending"])
  /\ UNCHANGED processedMessages
  /\ UNCHANGED <<storeVars, mentionVars, resolveVars, queueVars, lastRec, textVars, commandVars, connVars>>

\* "await sock.sendMessage(jid, { text: replyText }, ...)" ends; a
\* rejection is caught, logged and answered with null
PipeSendDone(i, outcome) ==
  /\ i \in 1..Len(tasks)
  /\ tasks[i].pc = "send"
  /\ tasks' = [tasks EXCEPT ![i].pc = "finished"]
  /\ outbox' = [k \in 1..Len(outbox) |->
                  IF outbox[k].task = i THEN [outbox[k] EXCEPT !.result = outcome]
                  ELSE outbox[k]]
  /\ UNCHANGED <<processedMessages, files, appendLog, recCalls>>
  /\ UNCHANGED <<storeVars, mentionVars, resolveVars, queueVars, lastRec, textVars, commandVars, connVars>>

\* "await mentionService.handleMentions(sock, enrichedMessage)" ends
PipeMentionsDone(i) ==
  /\ i \in 1..Len(tasks)
  /\ tasks[i].pc = "mentions"
  /\ tasks' = [tasks EXCEPT ![i].pc = "finished"]
  /\ UNCHANGED <<processedMessages, files, appendLog, recCalls, outbox>>
  /\ UNCHANGED <<storeVars, mentionVars, resolveVars, queueVars, lastRec, textVars, commandVars, connVars>>

PipeNext ==
  \/ \E msg \in PipeMessages : PipeDeliver(msg)
  \/ \E i \in 1..MaxPipeline : \E outcome \in MetaOutcomes : PipeGroupMetadata(i, outcome)
  \/ \E i \in 1..MaxPipeline : PipeAiDone(i)
  \/ \E i \in 1..MaxPipeline : \E outcome \in SendOutcomes : PipeSendDone(i, outcome)
  \/ \E i \in 1..MaxPipeline : PipeMentionsDone(i)

PipeIdle == outbox = <<>>

(***************************************************************************)
(* Pure text functions applied to one input: rawText is the argument,      *)
(* textOp the function that was applied ("none" before the call) and       *)
(* textOut what it returned.                                               *)
(***************************************************************************)
NoOut == [jid |-> <<>>, again |-> <<>>, numbers |-> <<>>, names |-> <<>>,
          actual |-> <<>>, relay |-> "none", store |-> "none"]

\* characters of the numbers given to formatNumberForWhatsApp
NumberChars == {"1", "2", "+", " ", "~", "a", "@"}

NormalizeInit ==
  /\ rawText \in SeqUpTo(NumberChars, MaxNumberLen)
  /\ textOp = "none"
  /\ textOut = NoOut

\* formatNumberForWhatsApp(rawText), and the same function applied to what
\* it returned
FormatNumber ==
  /\ textOp = "none"
  /\ textOp' = "format"
  /\ LET jid == FormatNumberForWhatsApp(rawText)
     IN textOut' = [NoOut EXCEPT !.jid = jid, !.again = FormatNumberForWhatsApp(jid)]
  /\ UNCHANGED rawText
  /\ UNCHANGED <<storeVars, mentionVars, inboundVars, recordVars, resolveVars, queueVars,
                 pipeVars, commandVars, connVars>>

NormalizeNext == FormatNumber

(***************************************************************************)
(* The text functions of mentionService.js on character sequences:         *)
(* extractMentionedNumbers, extractMentionedNames, extractActualMessage.   *)
(* A text is a sequence of characters; the regular expressions are         *)
(* computed as the engine computes them (leftmost match, greedy            *)
(* quantifiers, the scan resumes behind a match).                          *)
(***************************************************************************)
DigitSet == Digits
UpperSet == Range(UpperChars)
LowerSet == Range(LowerChars)
LetterSet == UpperSet \cup LowerSet
\* \w
WordSet == LetterSet \cup DigitSet \cup {"_"}
\* \s
SpaceSet == {" "}
\* the characters of [\s.,!?;:'"] in the alphabet
Terminators == {" ", "."}

\* the last position of the longest run of characters of S that starts
\* at position i (i - 1 when the run is empty)
RunEnd(s, i, S) ==
  LET stops == {j \in i..Len(s) : s[j] \notin S}
  IN IF stops = {} THEN Len(s)
     ELSE (CHOOSE j \in stops : \A k \in stops : j <= k) - 1

NoMatch == [ok |-> FALSE, from |-> 0, to |-> 0]

\* /@\s*[‪]?(\+?\d+)[‬]?/ tried at position i: the span of group 1
\* (the alphabet has no directional mark)
NumberMatchAt(s, i) ==
  IF i > Len(s) \/ s[i] # "@" THEN NoMatch
  ELSE LET a == RunEnd(s, i + 1, SpaceSet) + 1
           b == IF a <= Len(s) /\ s[a] = "+" THEN a + 1 ELSE a
           e == RunEnd(s, b, DigitSet)
       IN IF e >= b THEN [ok |-> TRUE, from |-> a, to |-> e] ELSE NoMatch

\* the loop "while ((match = mentionRegex.exec(messageText)) !== null)"
RECURSIVE NumberMatches(_, _)
NumberMatches(s, i) ==
  IF i > Len(s) THEN <<>>
  ELSE LET m == NumberMatchAt(s, i)
       IN IF m.ok THEN <<SubSeq(s, m.from, m.to)>> \o NumberMatches(s, m.to + 1)
          ELSE NumberMatches(s, i + 1)

\* messageText.split(/\s+/), without the empty strings
RECURSIVE Words(_)
Words(s) ==
  IF s = <<>> THEN <<>>
  ELSE IF Head(s) \in SpaceSet THEN Words(Tail(s))
  ELSE LET e == RunEnd(s, 1, {c \in Range(s) : c \notin SpaceSet})
       IN <<SubSeq(s, 1, e)>> \o Words(SubSeq(s, e + 1, Len(s)))

\* /^\+?\d+$/.test(n)
IsNumber(n) ==
  LET d == IF n # <<>> /\ Head(n) = "+" THEN Tail(n) ELSE n
  IN d # <<>> /\ \A i \in 1..Len(d) : d[i] \in DigitSet

\* the alternative approach: words that start with @
RECURSIVE AlternativeNumbers(_)
AlternativeNumbers(words) ==
  IF words = <<>> THEN <<>>
  ELSE LET word == Head(words)
           numberPart == SelectSeq(Tail(word), LAMBDA c : c \in DigitSet \cup {"+"})
       IN (IF Head(word) = "@" /\ IsNumber(numberPart) THEN <<numberPart>> ELSE <<>>)
          \o AlternativeNumbers(Tail(words))

ExtractMentionedNumbers(messageText) ==
  LET matches == NumberMatches(messageText, 1)
  IN IF matches # <<>> THEN matches ELSE AlternativeNumbers(Words(messageText))

\* /^\s+([A-Z][a-z]+)/ tried at position i: the span of the whole match
\* (the capitalised word starts behind the whitespace)
CapWordAt(s, i) ==
  LET a == RunEnd(s, i, SpaceSet) + 1
      e == RunEnd(s, a + 1, LowerSet)
  IN IF a > i /\ a <= Len(s) /\ s[a] \in UpperSet /\ e > a
     THEN [ok |-> TRUE, from |-> i, to |-> e, word |-> a]
     ELSE [ok |-> FALSE, from |-> 0, to |-> 0, word |-> 0]

\* the name extractMentionedNames reads at the @ of position p (<<>>: none)
NameAt(s, p) ==
  LET textAfterAt == SubSeq(s, p + 1, Len(s))
      endOfFirstWord == RunEnd(textAfterAt, 1,
                               {c \in Range(textAfterAt) : c \notin Terminators})
      firstWord == SubSeq(textAfterAt, 1, endOfFirstWord)
      m1 == CapWordAt(textAfterAt, endOfFirstWord + 1)
      m2 == CapWordAt(textAfterAt, m1.to + 1)
  IN IF p > 1 /\ s[p - 1] \in LetterSet \cup DigitSet THEN <<>>
     ELSE IF (\E i \in 1..Len(firstWord) : firstWord[i] \in DigitSet) \/ Len(firstWord) < 2
     THEN <<>>
     ELSE IF m1.ok
     THEN firstWord \o <<" ">> \o SubSeq(textAfterAt, m1.word, m1.to)
          \o (IF m2.ok THEN SubSeq(textAfterAt, m2.from, m2.to) ELSE <<>>)
     ELSE firstWord

\* the loop over atSymbolPositions
RECURSIVE NamesFrom(_, _)
NamesFrom(s, p) ==
  IF p > Len(s) THEN <<>>
  ELSE (IF s[p] = "@" /\ NameAt(s, p) # <<>> THEN <<NameAt(s, p)>> ELSE <<>>)
       \o NamesFrom(s, p + 1)

\* /@([a-zA-Z]+_[a-zA-Z]+)/ tried at position i: the span of group 1
UnderscoreMatchAt(s, i) ==
  IF i > Len(s) \/ s[i] # "@" THEN NoMatch
  ELSE LET a == RunEnd(s, i + 1, LetterSet)
           e == RunEnd(s, a + 2, LetterSet)
       IN IF a > i /\ a + 1 <= Len(s) /\ s[a + 1] = "_" /\ e > a + 1
          THEN [ok |-> TRUE, from |-> i + 1, to |-> e] ELSE NoMatch

\* the loop over underscoreNameRegex.exec; names are the names found so far
RECURSIVE UnderscoreNames(_, _, _)
UnderscoreNames(s, i, names) ==
  IF i > Len(s) THEN names
  ELSE LET m == UnderscoreMatchAt(s, i)
           name == SubSeq(s, m.from, m.to)
       IN IF m.ok
          THEN UnderscoreNames(s, m.to + 1,
                 IF name \in Range(names) THEN names ELSE Append(names, name))
          ELSE UnderscoreNames(s, i + 1, names)

ExtractMentionedNames(messageText) ==
  UnderscoreNames(messageText, 1, NamesFrom(messageText, 1))

\* \b at the gap in front of position k
WordBoundary(s, k) ==
  (k > 1 /\ s[k - 1] \in WordSet) # (k <= Len(s) /\ s[k] \in WordSet)

\* cleanedMessage.replace(new RegExp(`@${escaped}\\b`, 'g'), ''), from
\* position i on
RECURSIVE RemoveMentionFrom(_, _, _)
RemoveMentionFrom(s, i, token) ==
  LET pat == <<"@">> \o token
      e == i + Len(pat) - 1
  IN IF i > Len(s) THEN <<>>
     ELSE IF e <= Len(s) /\ SubSeq(s, i, e) = pat /\ WordBoundary(s, e + 1)
     THEN RemoveMentionFrom(s, e + 1, token)
     ELSE <<s[i]>> \o RemoveMentionFrom(s, i + 1, token)

\* the loops "for (const name of mentionedNames)" and "for (const number
\* of mentionedNumbers)"
RECURSIVE RemoveMentions(_, _)
RemoveMentions(s, tokens) ==
  IF tokens = <<>> THEN s
  ELSE RemoveMentions(RemoveMentionFrom(s, 1, Head(tokens)), Tail(tokens))

\* cleanedMessage.replace(/@\S+\s?/g, ''), from position i on
RECURSIVE RemoveRemaining(_, _)
RemoveRemaining(s, i) ==
  IF i > Len(s) THEN <<>>
  ELSE LET e == RunEnd(s, i + 1, {c \in Range(s) : c \notin SpaceSet})
           f == IF e + 1 <= Len(s) /\ s[e + 1] \in SpaceSet THEN e + 1 ELSE e
       IN IF s[i] = "@" /\ e > i THEN RemoveRemaining(s, f + 1)
          ELSE <<s[i]>> \o RemoveRemaining(s, i + 1)

\* cleanedMessage.replace(/\s+/g, ' ')
RECURSIVE CollapseSpaces(_)
CollapseSpaces(s) ==
  IF s = <<>> THEN <<>>
  ELSE IF Head(s) \in SpaceSet
  THEN <<" ">> \o CollapseSpaces(SubSeq(s, RunEnd(s, 1, SpaceSet) + 1, Len(s)))
  ELSE <<Head(s)>> \o CollapseSpaces(Tail(s))

ExtractActualMessage(messageText, mentionedNamesArg, mentionedNumbersArg) ==
  LET c1 == RemoveMentions(messageText, mentionedNamesArg)
      c2 == RemoveMentions(c1, mentionedNumbersArg)
      c3 == RemoveRemaining(c2, 1)
  IN Trim(CollapseSpaces(c3))

\* a text is put together from at most MaxPieces of these pieces
TextPieces == { <<"@">>, <<"1">>, <<"+">>, <<" ">>, <<"A", "b">>, <<"b">>, <<".">>,
                <<"_">> }
RECURSIVE Flatten(_)
Flatten(ps) == IF ps = <<>> THEN <<>> ELSE Head(ps) \o Flatten(Tail(ps))
Texts(n) == {Flatten(ps) : ps \in SeqUpTo(TextPieces, n)}

TextInit ==
  /\ rawText \in Texts(MaxPieces)
  /\ textOp = "none"
  /\ textOut = NoOut

\* processMessage: extractMentionedNumbers(messageText) and
\* extractMentionedNames(messageText)
ExtractMentions ==
  /\ textOp = "none"
  /\ textOp' = "extract"
  /\ textOut' = [NoOut EXCEPT !.numbers = ExtractMentionedNumbers(rawText),
                              !.names = ExtractMentionedNames(rawText)]
  /\ UNCHANGED rawText
  /\ UNCHANGED <<storeVars, mentionVars, inboundVars, recordVars, resolveVars, queueVars,
                 pipeVars, commandVars, connVars>>

\* handleMentions: extractActualMessage(messageText, mentionedNames,
\* mentionedNumbers) with the lists extracted from the same text
StripMentions ==
  /\ textOp = "extract"
  /\ textOp' = "strip"
  /\ textOut' = [textOut EXCEPT
                   !.actual = ExtractActualMessage(rawText, textOut.names, textOut.numbers)]
  /\ UNCHANGED rawText
  /\ UNCHANGED <<storeVars, mentionVars, inboundVars, recordVars, resolveVars, queueVars,
                 pipeVars, commandVars, connVars>>

TextNext == ExtractMentions \/ StripMentions

(***************************************************************************)
(* detectLanguage (mentionService.js), the language detection of the relay *)
(* composer.  A text is a sequence of character classes as above; "k",     *)
(* "i" and "K" are Latin letters, the letters of the dictionary word 'ki'. *)
(***************************************************************************)
\* bengaliWordsInEnglish, cut down to its first word
BengaliWordsInEnglish == { <<"k", "i">> }

\* text.toLowerCase()
DetectLower(text) == [i \in 1..Len(text) |-> IF text[i] = "K" THEN "k" ELSE text[i]]

\* String.prototype.split(/\s+/): the empty strings at the ends are kept
RECURSIVE SplitSpaces(_)
SplitSpaces(s) ==
  LET spaces == {i \in 1..Len(s) : s[i] \in SpaceSet}
  IN IF spaces = {} THEN <<s>>
     ELSE LET i == CHOOSE j \in spaces : \A k \in spaces : j <= k
          IN <<SubSeq(s, 1, i - 1)>>
             \o SplitSpaces(SubSeq(s, RunEnd(s, i, SpaceSet) + 1, Len(s)))

DetectLanguage(text) ==
  LET words == SplitSpaces(DetectLower(text))
      bengaliWordsCount ==
        Cardinality({i \in 1..Len(words) : words[i] \in BengaliWordsInEnglish})
  IN IF IsBlank(text) THEN "auto"
     ELSE IF Has(text, "bn") THEN "bn"
     ELSE IF bengaliWordsCount > 0 /\ 3 * bengaliWordsCount >= Len(words) THEN "bn"
     ELSE IF Has(text, "en") THEN "en"
     ELSE "auto"

DetectPieces == { <<"bn">>, <<"ar">>, <<"hi">>, <<"en">>, <<"k", "i">>, <<"K">>,
                  <<" ">>, <<"?">> }

DetectInit ==
  /\ rawText \in {Flatten(ps) : ps \in SeqUpTo(DetectPieces, MaxPieces)}
  /\ textOp = "none"
  /\ textOut = NoOut
  /\ files = [p \in Paths |-> AbsentFile]
  /\ appendLog = [p \in Paths |-> <<>>]
  /\ recCalls = 0
  /\ lastRec = NoRec

\* both detections applied to one text: detectLanguage(rawText) and
\* detectAndUpdateLanguage(userId, isGroup, rawText)
DetectBoth ==
  /\ textOp = "none"
  /\ textOp' = "detect"
  /\ LET r == DetectAndUpdateLanguage(files, DirectA, FALSE, rawText)
     IN /\ textOut' = [NoOut EXCEPT !.relay = DetectLanguage(rawText), !.store = r.ret]
        /\ files' = r.files
  /\ UNCHANGED <<rawText, appendLog, recCalls, lastRec>>
  /\ UNCHANGED <<storeVars, mentionVars, inboundVars, resolveVars, queueVars, pipeVars, commandVars, connVars>>

DetectNext == DetectBoth

(***************************************************************************)
(* The reply command of the control channel: processReplyCommand of        *)
(* messageHandler.js (on the core store, replies go through the reply      *)
(* queue) and processReplyCommand of src/replyHandler.js (on the legacy    *)
(* store, replies are sent directly).  A command line is the sequence of   *)
(* its parts between single spaces, command.split(' ').  Every cached      *)
(* message came from messages.upsert and has a key.remoteJid with an '@'.  *)
(***************************************************************************)
ReplyCommands == {<<"!reply", k, "x">> : k \in StoreIds} \cup {<<"!reply", "A">>}

\* command.startsWith('!reply ')
StartsWithReply(command) == Len(command) >= 2 /\ command[1] = "!reply"

\* messageHandler.js: parts = command.substring(7).split(' ')
ParseCore(command) ==
  LET parts == Tail(command)
  IN IF Len(parts) < 2 \/ parts[1] = ""
        \/ \A i \in 2..Len(parts) : parts[i] = ""
     THEN [ok |-> FALSE, messageId |-> ""]
     ELSE [ok |-> TRUE, messageId |-> parts[1]]

\* src/replyHandler.js: parts = command.split(' ')
ParseLegacy(command) ==
  IF Len(command) < 3 THEN [ok |-> FALSE, messageId |-> ""]
  ELSE [ok |-> TRUE, messageId |-> command[2]]

\* the record of a command: the store it read, the id it named, whether a
\* reply was issued, the message object quoted (whose key.remoteJid is the
\* address replied to), the number of the queued reply (0: not queued),
\* what the command returned, and the number of commands so far
Command(path, command, messageId, issued, obj, n, ret) ==
  [path |-> path, command |-> command, messageId |-> messageId, issued |-> issued,
   quoted |-> obj, n |-> n, ret |-> ret, count |-> lastCommand.count + 1]

NoCommand ==
  [path |-> "none", command |-> <<>>, messageId |-> "", issued |-> FALSE,
   quoted |-> 0, n |-> 0, ret |-> FALSE, count |-> 0]

CommandInit == lastCommand = NoCommand

\* processReplyCommand(command, sock, messageStore) of messageHandler.js;
\* the command is not a quick-reply shortcut
CoreReplyCommand(command) ==
  /\ lastCommand.count < MaxCommands
  /\ StartsWithReply(command)
  /\ LET p == ParseCore(command)
         message == CoreGet(coreMessages, p.messageId)
     IN IF ~p.ok \/ message.st # "hit"
        THEN /\ lastCommand' = Command("core", command, p.messageId, FALSE, 0, 0, FALSE)
             /\ UNCHANGED queueVars
        ELSE \* await sendReply(sock, jid, replyText, message, true): queueReply
             LET reply == [n |-> Len(queued) + 1, kind |-> "valid"]
                 st == [QueueState EXCEPT !.queue = Append(@, reply)]
             IN /\ queued' = Append(queued, reply)
                /\ SetQueueState(IF Len(st.queue) = 1 THEN ProcessReplyQueue(st) ELSE st)
                /\ lastCommand' =
                     Command("core", command, p.messageId, TRUE, message.obj, reply.n, TRUE)
  /\ UNCHANGED <<storeVars, mentionVars, inboundVars, recordVars, resolveVars, pipeVars, textVars, connVars>>

\* processReplyCommand(sock, command, messageStore) of src/replyHandler.js;
\* delivered: sock.sendMessage resolves (TRUE) or rejects
LegacyReplyCommand(command, delivered) ==
  /\ lastCommand.count < MaxCommands
  /\ StartsWithReply(command)
  /\ LET p == ParseLegacy(command)
         originalMessage == LegacyGet(legacyMessages, p.messageId)
     IN lastCommand' =
          IF ~p.ok \/ originalMessage.st # "hit"
          THEN Command("legacy", command, p.messageId, FALSE, 0, 0, FALSE)
          ELSE Command("legacy", command, p.messageId, TRUE, originalMessage.obj, 0, delivered)
  /\ UNCHANGED <<storeVars, mentionVars, inboundVars, recordVars, resolveVars, queueVars,
                 pipeVars, textVars, connVars>>

\* the stores are filled by the handler and emptied by eviction and removal
CommandNext ==
  \/ \E i \in StoreIds : storeCalls <= Capacity /\ StoreAdd([hasKey |-> TRUE, id |-> i])
  \/ \E k \in StoreIds : storeCalls <= Capacity /\ StoreRemove(k)
  \/ \E command \in ReplyCommands : CoreReplyCommand(command)
  \/ \E command \in ReplyCommands : \E delivered \in BOOLEAN : LegacyReplyCommand(command, delivered)
  \/ TimerFires
  \/ \E i \in 1..MaxQueued : SendSettles(i)

CommandIdle == lastCommand = NoCommand

(***************************************************************************)
(* The connection life cycle: connectToWhatsApp (messageHandler.js) and    *)
(* startBot (part_000; startWhatsAppBot of server.js has the same          *)
(* connection handler).  Every call makes one socket and one readline      *)
(* interface on process.stdin with one 'line' listener bound to that       *)
(* socket; no interface is ever closed on a reconnect.  A socket emits     *)
(* connection 'close' once.  The reason of a close is "loggedOut" (a Boom  *)
(* error with status loggedOut), "boom" (a Boom error with another         *)
(* status) or "other" (an error that is no Boom, or no lastDisconnect).    *)
(***************************************************************************)
Impls == {"core", "standalone"}
CloseReasons == {"loggedOut", "boom", "other"}

\* makeWASocket(...) and readline.createInterface(...) of one call
NewSock == [state |-> "connecting", isConnecting |-> FALSE]

NoClose == [sock |-> 0, reason |-> "none", scheduled |-> FALSE]

\* the reconnect condition of the 'close' branch
ShouldReconnect(i, reason) ==
  IF impl = "core"
  THEN reason = "boom" /\ ~socks[i].isConnecting
  ELSE reason # "loggedOut"

ConnInit ==
  /\ impl \in Impls
  /\ socks = <<NewSock>>
  /\ reconnects = <<>>
  /\ lastClose = NoClose
  /\ entered = 0
  /\ lineRuns = <<>>

\* connection.update with connection === 'open' on socket i
ConnOpen(i) ==
  /\ i \in 1..Len(socks)
  /\ socks[i].state = "connecting"
  /\ socks' = [socks EXCEPT ![i].state = "open", ![i].isConnecting = FALSE]
  /\ UNCHANGED <<impl, reconnects, lastClose, entered, lineRuns>>
  /\ UNCHANGED <<storeVars, mentionVars, inboundVars, recordVars, resolveVars, queueVars,
                 pipeVars, textVars, commandVars>>

\* connection.update with connection === 'close' on socket i
ConnClose(i, reason) ==
  /\ i \in 1..Len(socks)
  /\ socks[i].state # "closed"
  /\ LET schedule == ShouldReconnect(i, reason)
     IN /\ socks' = [socks EXCEPT ![i].state = "closed",
                                  ![i].isConnecting = IF impl = "core" /\ schedule
                                                      THEN TRUE ELSE @]
        /\ reconnects' = IF schedule THEN Append(reconnects, i) ELSE reconnects
        /\ lastClose' = [sock |-> i, reason |-> reason, scheduled |-> schedule]
  /\ UNCHANGED <<impl, entered, lineRuns>>
  /\ UNCHANGED <<storeVars, mentionVars, inboundVars, recordVars, resolveVars, queueVars,
                 pipeVars, textVars, commandVars>>

\* the reconnect callback runs: connectToWhatsApp() or startBot()
ReconnectTimer ==
  /\ reconnects # <<>>
  /\ Len(socks) < MaxConnections
  /\ socks' = Append([socks EXCEPT ![Head(reconnects)].isConnecting = FALSE], NewSock)
  /\ reconnects' = Tail(reconnects)
  /\ UNCHANGED <<impl, lastClose, entered, lineRuns>>
  /\ UNCHANGED <<storeVars, mentionVars, inboundVars, recordVars, resolveVars, queueVars,
                 pipeVars, textVars, commandVars>>

\* a line "!reply <id> <text>" arrives on stdin, <id> being the identifier
\* of a message received on socket r: the 'line' listener of every
\* interface runs processReplyCommand with its own socket.  The store is
\* one for all sockets in messageHandler.js and one per startBot call in
\* part_000, where only the listener of socket r finds the message.
LineEntered(r) ==
  /\ entered < MaxLines
  /\ r \in 1..Len(socks)
  /\ socks[r].state # "connecting"
  /\ entered' = entered + 1
  /\ lineRuns' = lineRuns \o
       [k \in 1..Len(socks) |->
          [line |-> entered + 1, sock |-> k, reply |-> (impl = "core" \/ k = r)]]
  /\ UNCHANGED <<impl, socks, reconnects, lastClose>>
  /\ UNCHANGED <<storeVars, mentionVars, inboundVars, recordVars, resolveVars, queueVars,
                 pipeVars, textVars, commandVars>>

ConnNext ==
  \/ \E i \in 1..MaxConnections : ConnOpen(i)
  \/ \E i \in 1..MaxConnections : \E reason \in CloseReasons : ConnClose(i, reason)
  \/ ReconnectTimer
  \/ \E r \in 1..MaxConnections : LineEntered(r)

ConnIdle ==
  /\ impl = "core"
  /\ socks = <<>>
  /\ reconnects = <<>>
  /\ lastClose = NoClose
  /\ entered = 0
  /\ lineRuns = <<>>

TextIdle ==
  /\ rawText = <<>>
  /\ textOp = "none"
  /\ textOut = NoOut

\* a section at rest while another one runs
MentionIdle ==
  /\ mentionedNumbers = <<>>
  /\ mentionedNames = <<>>
  /\ actualEmpty = FALSE
  /\ dataDir = [inbox |-> <<>>, groups |-> <<>>]
  /\ mpc = "done"
  /\ idx = 0
  /\ processedNumbers = {}
  /\ results = <<>>
  /\ cur = NoCur
  /\ sent = <<>>
  /\ sendCalls = <<>>
  /\ iterations = 0
  /\ threw = FALSE

StoreNext ==
  \/ \E msg \in StoreMessages : StoreAdd(msg)
  \/ \E k \in StoreIds : StoreGet(k)
  \/ \E k \in StoreIds : StoreRemove(k)
  \/ StoreClear

(***************************************************************************)
(* Claims about the MessageStore                                           *)
(***************************************************************************)
\* the slot inserted earliest among those a Map holds
OldestSlot(m) == CHOOSE e \in Slots(m) : \A f \in Slots(m) : e.at <= f.at

\* this step is a call of add / get
IsAddStep == storeCalls' = storeCalls + 1 /\ lastCall'.op = "add"
IsGetStep == storeCalls' = storeCalls + 1 /\ lastCall'.op = "get"
AddedId == lastCall'.msg.id
AddHasId == lastCall'.msg.hasKey /\ lastCall'.msg.id # Undefined

\* C8: every add (of a message with an identifier, to a cache
\* that holds messages with identifiers) performed while the cache holds N
\* entries evicts exactly one entry, the one inserted earliest, in both
\* stores, and a get changes nothing.
C8_AddAtCapacityEvictsOldest ==
  [][/\ (IsAddStep /\ AddHasId /\ Len(coreMessages) = Capacity
           /\ Undefined \notin MapKeys(coreMessages))
          => Slots(coreMessages) \ Slots(coreMessages') = {OldestSlot(coreMessages)}
     /\ (IsAddStep /\ AddHasId /\ Len(legacyMessages) = Capacity)
          => Slots(legacyMessages) \ Slots(legacyMessages') = {OldestSlot(legacyMessages)}
     /\ IsGetStep => UNCHANGED <<coreMessages, legacyMessages, messageQueue>>]_vars

\* C9: after any sequence of add, remove and clear calls size() is at most
\* N, in both stores.
C9_SizeAtMostCapacity == CoreSize <= Capacity /\ LegacySize <= Capacity

\* C9 witness: an add found both stores full and left them full.
C9_Witness ==
  /\ lastCall.op = "add"
  /\ lastCall.coreSize = Capacity /\ lastCall.legacySize = Capacity
  /\ lastCall.coreGone # {} /\ lastCall.legacyGone # {}
  /\ CoreSize = Capacity /\ LegacySize = Capacity

\* C10 (as stated): add of a message without an identifier signals an error
\* and leaves contents and size unchanged, in both stores.
C10_AddWithoutIdFails ==
  [][(IsAddStep /\ ~AddHasId)
       => /\ lastCall'.core.st = "throw"
          /\ lastCall'.legacy.st = "throw"
          /\ UNCHANGED <<coreMessages, legacyMessages, messageQueue>>]_vars


(***************************************************************************)
(* Claims about handleMentions and sendDirectMessage                       *)
(***************************************************************************)
SentIdx == 1..Len(sent)
Relays == {k \in SentIdx : sent[k].kind = "relay"}
\* the outcomes of the transport calls made by the send of iteration i
AttemptsOf(i) ==
  LET ks == {k \in Relays : sent[k].iter = i}
      F[n \in 0..Len(sent)] ==
        IF n = 0 THEN <<>>
        ELSE IF n \in ks THEN Append(F[n - 1], sent[n].ok) ELSE F[n - 1]
  IN F[Len(sent)]
\* the iteration that made send call c is over
IterationOver(c) == c.iter < iterations \/ mpc \in {"numbers", "names", "done"}
\* the iteration of the i-th mentioned name
NameIteration(i) == Len(mentionedNumbers) + i
\* the names whose iteration is over
NamesHandled ==
  {i \in 1..Len(mentionedNames) :
     \/ mpc = "done"
     \/ mpc = "names" /\ i < idx
     \/ mpc \notin {"start", "numbers", "names", "done"} /\ cur.kind = "name" /\ i < idx}

\* C2 (as stated): within one inbound message no delivery address receives
\* more than one relay message.
C2_OneRelayPerAddress ==
  \A k1, k2 \in Relays :
    (sent[k1].ok /\ sent[k2].ok /\ sent[k1].to = sent[k2].to) => k1 = k2

\* C3: a send to a valid address invokes the transport once when the first
\* attempt succeeds and twice when it raises, never more; it reports
\* delivered exactly when one of the attempts succeeded; a number that
\* normalizes to invalid causes no transport call and is reported failed.
C3_SendAttempts ==
  /\ \A i \in 1..iterations : Len(AttemptsOf(i)) <= 2
  /\ \A n \in 1..Len(sendCalls) :
       LET c == sendCalls[n]
           a == AttemptsOf(c.iter)
       IN IF FormatNumberForWhatsApp(c.number) = NullJid
          THEN a = <<>> /\ ~c.delivered
          ELSE \/ a = <<TRUE>> /\ c.delivered
               \/ a = <<FALSE, TRUE>> /\ c.delivered
               \/ a = <<FALSE, FALSE>> /\ ~c.delivered

\* C3 witness: one message whose first target was delivered by the second
\* attempt and whose second target has a number that does not normalize.
C3_Witness ==
  /\ \E n \in 1..Len(sendCalls) :
       sendCalls[n].delivered /\ AttemptsOf(sendCalls[n].iter) = <<FALSE, TRUE>>
  /\ \E n \in 1..Len(sendCalls) :
       /\ FormatNumberForWhatsApp(sendCalls[n].number) = NullJid
       /\ ~sendCalls[n].delivered

ConfirmsOf(c) ==
  {k \in SentIdx : /\ sent[k].kind = "confirm" /\ sent[k].iter = c.iter
                   /\ sent[k].about = c.token /\ sent[k].to = OriginJid}

\* C4 (as stated): a confirmation naming the target is posted to the
\* originating conversation if and only if the relay to it was delivered,
\* and only after the relay send completed.
C4_ConfirmationPostedIffDelivered ==
  \A n \in 1..Len(sendCalls) :
    LET c == sendCalls[n]
    IN IterationOver(c) =>
         /\ (\E k \in ConfirmsOf(c) : sent[k].ok) <=> c.delivered
         /\ \A k \in ConfirmsOf(c) :
              \E r \in Relays : r < k /\ sent[r].iter = c.iter /\ sent[r].ok

\* C4 (amended): a confirmation naming the target is sent to the originating
\* conversation, once, if and only if the relay to it was delivered, and
\* only after the relay send completed; it is posted unless that
\* confirmation send itself raises.  A target whose delivery failed gets no
\* confirmation.
C4_ConfirmationSentIffDelivered ==
  /\ \A n \in 1..Len(sendCalls) :
       LET c == sendCalls[n]
       IN IterationOver(c) =>
            /\ (ConfirmsOf(c) # {}) <=> c.delivered
            /\ Cardinality(ConfirmsOf(c)) <= 1
  /\ \A k \in SentIdx :
       sent[k].kind = "confirm" =>
         /\ sent[k].to = OriginJid
         /\ \E r \in Relays : /\ r < k /\ sent[r].iter = sent[k].iter /\ sent[r].ok
                              /\ sent[r].about = sent[k].about

\* C4 witness: the run is over; one target was delivered and confirmed, and
\* another one failed on both attempts.
C4_Witness ==
  /\ mpc = "done"
  /\ \E n \in 1..Len(sendCalls) :
       sendCalls[n].delivered /\ \E k \in ConfirmsOf(sendCalls[n]) : sent[k].ok
  /\ \E n \in 1..Len(sendCalls) :
       ~sendCalls[n].delivered /\ AttemptsOf(sendCalls[n].iter) = <<FALSE, FALSE>>

\* a failure happened in the i-th iteration
FailedIn(i) ==
  \E k \in SentIdx :
    /\ sent[k].iter = i
    /\ \/ ~sent[k].ok
       \/ sent[k].kind = "relay" /\ sent[k].ai \in {"invalid", "error"}

\* C5: whatever fails for one mention, every later mention is processed and
\* handleMentions returns normally.
C5_FailuresDoNotStopTheLoop ==
  mpc = "done" =>
    /\ ~threw
    /\ iterations = Len(mentionedNumbers) + Len(mentionedNames)
    /\ \A i \in 1..Len(mentionedNumbers) :
         \E n \in 1..Len(sendCalls) : sendCalls[n].number = mentionedNumbers[i]
    /\ \A i \in 1..Len(mentionedNames) :
         LET phone == FindPhoneNumberByName(dataDir, mentionedNames[i])
         IN IF phone = <<>>
            THEN \E k \in SentIdx : sent[k].kind = "notice" /\ sent[k].iter = NameIteration(i)
            ELSE \E n \in 1..Len(sendCalls) : sendCalls[n].number = phone

\* C5 witness: the run is over, something failed for the first mention
\* (a send, the confirmation, the notice or the text generation) and the
\* second one was still relayed.
C5_Witness ==
  /\ mpc = "done"
  /\ ~threw
  /\ FailedIn(1)
  /\ \E k \in SentIdx : sent[k].kind = "confirm" /\ ~sent[k].ok /\ sent[k].iter = 1
  /\ \E k \in Relays : sent[k].iter = 2 /\ sent[k].ok

\* C6 (as stated): when the text-generation request fails, the relay
\* quotes the unmodified mention-stripped text.
C6_FailedGenerationFallsBackToRaw ==
  \A k \in Relays : sent[k].ai \in {"invalid", "error"} => sent[k].payload = "raw"

NoticesOf(i) ==
  {k \in SentIdx : /\ sent[k].kind = "notice" /\ sent[k].iter = NameIteration(i)
                   /\ sent[k].about = mentionedNames[i] /\ sent[k].to = OriginJid}

\* C7 (as stated): when a name resolves to not-found a notice naming it is
\* posted to the originating conversation, no relay send is attempted for
\* it, and processing continues.
C7_NotFoundNoticePosted ==
  \A i \in NamesHandled :
    FindPhoneNumberByName(dataDir, mentionedNames[i]) = <<>> =>
      /\ \E k \in NoticesOf(i) : sent[k].ok
      /\ \A k \in Relays : sent[k].iter # NameIteration(i)

\* C7 (amended): when a name resolves to not-found a notice naming it is
\* sent to the originating conversation, once (it is posted unless that send
\* itself raises), no relay send is attempted for it, and processing
\* continues with the next mention.
C7_NotFoundNoticeSent ==
  /\ \A i \in NamesHandled :
       FindPhoneNumberByName(dataDir, mentionedNames[i]) = <<>> =>
         /\ Cardinality(NoticesOf(i)) = 1
         /\ \A k \in Relays : sent[k].iter # NameIteration(i)
         /\ \A n \in 1..Len(sendCalls) : sendCalls[n].iter # NameIteration(i)
  /\ \A k \in SentIdx :
       sent[k].kind = "notice" =>
         FindPhoneNumberByName(dataDir, sent[k].about) = <<>>
  /\ mpc = "done" => iterations = Len(mentionedNumbers) + Len(mentionedNames)

\* C7 witness: the first name was not found and got its notice, and the
\* name after it was relayed.
C7_Witness ==
  /\ Len(mentionedNames) = 2
  /\ FindPhoneNumberByName(dataDir, mentionedNames[1]) = <<>>
  /\ \E k \in NoticesOf(1) : sent[k].ok
  /\ \E k \in Relays : sent[k].iter = NameIteration(2) /\ sent[k].ok


\* the entries of results that name the target of send call c
EntriesFor(c) == {k \in 1..Len(results) : results[k].token = c.token}

\* C36: when handleMentions returns, results holds exactly one entry for
\* each target a relay was dispatched to, and the entry's success flag is
\* true if and only if the relay to that target was delivered.
C36_OneOutcomePerTarget ==
  mpc = "done" =>
    \A n \in 1..Len(sendCalls) :
      /\ Cardinality(EntriesFor(sendCalls[n])) = 1
      /\ \A k \in EntriesFor(sendCalls[n]) :
           results[k].success <=> sendCalls[n].delivered

(***************************************************************************)
(* Claims about processMessage                                             *)
(***************************************************************************)
\* the number of mention-handling or auto-reply actions triggered for id m
ActionsFor(ts, m) ==
  Cardinality({i \in 1..Len(ts) : ts[i].msg.id = m /\ ts[i].action # "none"})

InboundIds == {msg.id : msg \in InboundMessages}

\* C1: under any interleaving of inbound-message tasks, a message whose
\* identifier is in the recently-processed set triggers neither mention
\* handling nor an auto-reply; the step that triggers one for an identifier
\* is the step that puts it into the set.
C1_ProcessedIdTriggersNothing ==
  [][\A m \in InboundIds :
       /\ m \in Range(processedMessages) => ActionsFor(tasks', m) = ActionsFor(tasks, m)
       /\ ActionsFor(tasks', m) # ActionsFor(tasks, m) =>
            /\ ActionsFor(tasks', m) = ActionsFor(tasks, m) + 1
            /\ m \in Range(processedMessages')]_vars

\* C1 witness: two deliveries of one group message were both suspended at
\* the group-metadata await; the later one resumed first and acted, the
\* earlier one then found the identifier in the set and did nothing.
C1_Witness ==
  \E i, j \in 1..Len(tasks) :
    /\ i < j
    /\ tasks[i].msg.id = tasks[j].msg.id
    /\ tasks[i].msg.isGroup
    /\ tasks[j].action # "none"
    /\ tasks[i].action = "none" /\ tasks[i].pc = "finished"
    /\ tasks[i].msg.id \in Range(processedMessages)


(***************************************************************************)
(* Claims about the conversation records                                   *)
(***************************************************************************)
\* this step is a userDataService call
IsRecStep == recCalls' = recCalls + 1
\* the file of the entity of the last call
LastPath == GetUserDataPath(lastRec.entity.id, lastRec.entity.isGroup)
\* the stored display name of sender s in the file at path p
NameOf(fs, p, s) == IF fs[p].kind = "record" THEN fs[p].data.participants[s] ELSE Absent
Known(n) == n \notin {Null, Absent, UnknownUser}
\* the stored language preference of the file at path p
LangOf(fs, p) == IF fs[p].kind = "record" THEN fs[p].data.language ELSE "auto"
\* the tags of the history stored at path p
HistoryOf(p) ==
  IF files[p].kind = "record"
  THEN [i \in 1..Len(files[p].data.conversation) |-> files[p].data.conversation[i].tag]
  ELSE <<>>
LoggedTags(p) == [i \in 1..Len(appendLog[p]) |-> appendLog[p][i].tag]
Min(a, b) == IF a < b THEN a ELSE b
LastN(s, n) == SubSeq(s, Len(s) - n + 1, Len(s))

\* C11: once a participant has a known display name, an inbound message or
\* a participant patch that carries no display name leaves the stored name
\* unchanged, for direct and for group records.
C11_KnownNameSurvivesNamelessUpdate ==
  [][(IsRecStep /\ lastRec'.op \in {"add", "update"} /\ lastRec'.carried = Null)
       => \A p \in Paths, s \in SenderIds :
            Known(NameOf(files, p, s)) => NameOf(files', p, s) = NameOf(files, p, s)]_vars

\* C13: two distinct addresses of one collection have different storage
\* keys, so a load for one address never returns messages appended for the
\* other.
C13_DistinctAddressesDistinctRecords ==
  lastRec.op = "load" =>
    \A i \in 1..Len(lastRec.ret.conversation) :
      \E k \in 1..Len(appendLog[LastPath]) :
        /\ appendLog[LastPath][k].tag = lastRec.ret.conversation[i].tag
        /\ appendLog[LastPath][k].for = lastRec.entity.id

\* C14: after n addMessage calls on one record with history bound B the
\* history holds exactly the last min(n, B) appended messages in append
\* order (so its length never exceeds B).
C14_HistoryIsLastAppended ==
  \A p \in Paths :
    /\ HistoryOf(p) = LastN(LoggedTags(p), Min(Len(LoggedTags(p)), HistoryBound))
    /\ Len(HistoryOf(p)) <= HistoryBound

\* C14 witness: more than B messages were appended to one record and the
\* first one is no longer in its history.
C14_Witness ==
  \E p \in Paths :
    /\ Len(appendLog[p]) = HistoryBound + 1
    /\ Len(HistoryOf(p)) = HistoryBound
    /\ \A i \in 1..Len(HistoryOf(p)) : HistoryOf(p)[i] # appendLog[p][1].tag

\* C15: a detectAndUpdateLanguage call changes the stored preference only
\* from "auto" to the non-auto code it detected, leaves a non-auto
\* preference as it is, and returns the code detected for its own text.
C15_LanguageSetOnce ==
  [][(IsRecStep /\ lastRec'.op = "detect") =>
       /\ lastRec'.code = lastRec'.carried
       /\ \A p \in Paths :
            /\ LangOf(files, p) # "auto" => LangOf(files', p) = LangOf(files, p)
            /\ LangOf(files', p) # LangOf(files, p) =>
                 /\ lastRec'.code # "auto"
                 /\ LangOf(files', p) = lastRec'.code
       /\ (lastRec'.code # "auto"
             /\ LangOf(files, GetUserDataPath(lastRec'.entity.id, lastRec'.entity.isGroup)) = "auto")
            => LangOf(files', GetUserDataPath(lastRec'.entity.id, lastRec'.entity.isGroup))
                 = lastRec'.code]_vars

\* C15 witness: the preference was persisted as "bn", and a later call on
\* the same record detected and returned "en" without overwriting it.
C15_Witness ==
  /\ lastRec.op = "detect"
  /\ lastRec.code = "en"
  /\ LangOf(files, LastPath) = "bn"

\* C17: load for an entity whose file is missing or does not parse returns
\* the default skeleton (messageCount 0, empty history, no participants,
\* language "auto") without raising and without writing to storage.
C17_LoadMissReturnsSkeleton ==
  [][(IsRecStep /\ lastRec'.op = "load"
        /\ files[GetUserDataPath(lastRec'.entity.id, lastRec'.entity.isGroup)].kind # "record")
       => /\ ~lastRec'.threw
          /\ lastRec'.ret.userId = lastRec'.entity.id
          /\ lastRec'.ret.messageCount = 0
          /\ lastRec'.ret.conversation = <<>>
          /\ \A s \in SenderIds : lastRec'.ret.participants[s] = Absent
          /\ lastRec'.ret.language = "auto"
          /\ files' = files]_vars

\* C17 witness: a load has just returned the skeleton for a file that does
\* not parse, and the file is still as it was.
C17_Witness ==
  /\ lastRec.op = "load"
  /\ files[LastPath].kind = "corrupt"
  /\ lastRec.ret.messageCount = 0
  /\ lastRec.ret.language = "auto"

(***************************************************************************)
(* Claims about findPhoneNumberByName                                      *)
(***************************************************************************)
\* the looked-up name, lowercased and trimmed
Wanted == Trim(ToLowerCase(resolveName))
\* a stored display name that equals, contains or is contained in it
Related(stored) ==
  /\ stored # NoName
  /\ LET s == Trim(ToLowerCase(stored))
     IN s = Wanted \/ Includes(s, Wanted) \/ Includes(Wanted, s)
DirectHits == {i \in 1..Len(resolveDir.inbox) : Related(resolveDir.inbox[i].name)}
RosterOf == AllParticipants(resolveDir.groups)
RosterHits == {i \in 1..Len(RosterOf) : Related(RosterOf[i].name)}

\* C16: the result is the address of a matching direct-message record
\* whenever there is one, whatever the group rosters hold; the address of
\* a matching group participant only when no direct-message record
\* matches; and not-found exactly when nothing matches.
C16_DirectRecordsBeforeRosters ==
  resolveDone =>
    /\ DirectHits # {} =>
         \E i \in DirectHits : resolveResult = BeforeAt(resolveDir.inbox[i].userId)
    /\ (DirectHits = {} /\ RosterHits # {}) =>
         \E i \in RosterHits : resolveResult = BeforeAt(RosterOf[i].id)
    /\ (resolveResult = <<>>) <=> (DirectHits = {} /\ RosterHits = {})

\* C16 witness: a direct-message record and a group participant both match
\* the name, and the direct-message address was returned.
C16_Witness ==
  /\ resolveDone
  /\ DirectHits # {} /\ RosterHits # {}
  /\ \E i \in DirectHits : resolveResult = BeforeAt(resolveDir.inbox[i].userId)
  /\ \A i \in RosterHits : resolveResult # BeforeAt(RosterOf[i].id)

(***************************************************************************)
(* Claims about the recently-processed set                                 *)
(***************************************************************************)
\* the identifiers for which handleMentions or sendAutoReply was called
ActedIds == {tasks[i].msg.id : i \in {j \in 1..Len(tasks) : tasks[j].action # "none"}}

\* C18: the recently-processed set never holds more than the limit (1000);
\* an insertion that would make it limit + 1 cuts it to exactly the most
\* recently inserted half (500), the new identifier included; any other
\* insertion appends, and a step that inserts nothing leaves it as it is.
C18_ProcessedSetTrimmedToRecentHalf ==
  [][/\ Len(processedMessages') <= ProcessedLimit
     /\ \A m \in InboundIds :
          (m \notin Range(processedMessages) /\ m \in Range(processedMessages')) =>
            /\ processedMessages' =
                 IF Len(processedMessages) = ProcessedLimit
                 THEN LastN(Append(processedMessages, m), ProcessedKeep)
                 ELSE Append(processedMessages, m)
            /\ processedMessages'[Len(processedMessages')] = m
     /\ Range(processedMessages') \subseteq Range(processedMessages) =>
          processedMessages' = processedMessages]_vars

\* C18 witness: one more identifier than the limit has been inserted and
\* the set holds the most recent half.
C18_Witness ==
  /\ Cardinality(ActedIds) = ProcessedLimit + 1
  /\ Len(processedMessages) = ProcessedKeep
  /\ Range(processedMessages) \subseteq ActedIds

\* C33: in the legacy store, after any sequence of add, remove and clear
\* calls the eviction queue lists exactly the identifiers stored in the
\* map, each once, and an add performed while fewer than N messages are
\* stored evicts nothing.
C33_QueueListsStoredIds ==
  /\ Len(messageQueue) = Len(legacyMessages)
  /\ Range(messageQueue) = MapKeys(legacyMessages)
  /\ (lastCall.op = "add" /\ lastCall.legacySize < Capacity)
       => lastCall.legacyGone = {}

\* the calls of the store contract: add of a message with an identifier,
\* get and remove (size is read in every state)
StoreIdsNext ==
  \/ \E k \in StoreIds : StoreAdd([hasKey |-> TRUE, id |-> k])
  \/ \E k \in StoreIds : StoreGet(k)
  \/ \E k \in StoreIds : StoreRemove(k)

\* C34: after every call of a sequence of add (with identifiers), get and
\* remove calls both stores report the same size and the same hit or miss
\* for every identifier.
C34_StoresEquivalent ==
  /\ CoreSize = LegacySize
  /\ \A k \in StoreIds :
       (CoreGet(coreMessages, k).st = "hit")
         <=> (LegacyGet(legacyMessages, k).st = "hit")
  /\ lastCall.op = "get"
       => ((lastCall.core.st = "hit") <=> (lastCall.legacy.st = "hit"))

(***************************************************************************)
(* Claims about the reply queue                                            *)
(***************************************************************************)
ValidQueued == {queued[i].n : i \in {j \in 1..Len(queued) : queued[j].kind = "valid"}}
\* nothing is queued, scheduled or being sent
QueueQuiet == replyQueue = <<>> /\ timers = 0 /\ flying = <<>>

\* C19: every valid queued reply is handed to the transport exactly once
\* and in the order in which it was queued, also when the queue holds
\* entries that fail validation: no reply is handed twice, none is handed
\* before an earlier valid one, and when the queue has drained every valid
\* reply has been handed.
C19_ValidRepliesSentOnceInOrder ==
  /\ \A i, j \in 1..Len(handed) : i < j => handed[i] < handed[j]
  /\ \A i \in 1..Len(handed) :
       \A n \in ValidQueued : n < handed[i] => n \in Range(handed)
  /\ QueueQuiet => ValidQueued \subseteq Range(handed)

\* C31: at most one queued reply is being sent at any time: no run of
\* processReplyQueue, started by queueReply or by a timer, reaches the
\* transport while another run is awaiting it.
C31_OneSendAtATime == Len(flying) <= 1

GroupPath == GetUserDataPath(GroupG, TRUE)
\* the file of the conversation of task i
TaskPath(i) == GetUserDataPath(tasks[i].msg.jid, tasks[i].msg.isGroup)

\* C12: after any sequence of inbound group messages, whether or not the
\* metadata fetch succeeds, the profile name of a group record is a value
\* taken from group-subject data, never a sender's display name (nor any
\* other value).
C12_GroupNameOnlyFromSubject ==
  files[GroupPath].kind = "record" =>
    files[GroupPath].data.name \in {Null, Subject, UnknownGroup}

\* C20: every fresh inbound message the pipeline has handled is appended
\* to the history of its conversation's record and counted in
\* stats.messageCount, and so is every reply the bot has sent.
C20_EveryMessageRecorded ==
  /\ \A i \in 1..Len(tasks) :
       (tasks[i].pc = "finished" /\ tasks[i].action # "none") =>
         /\ tasks[i].inTag # 0
         /\ tasks[i].inTag \in Range(LoggedTags(TaskPath(i)))
  /\ \A k \in 1..Len(outbox) : outbox[k].stored
  /\ \A p \in Paths :
       files[p].kind = "record" => files[p].data.messageCount = Len(appendLog[p])

(***************************************************************************)
(* Claims about the text functions                                         *)
(***************************************************************************)
\* what is left of rawText after the two replace calls, and its digits
KeptOfRaw == SelectSeq(rawText, LAMBDA c : c \in Digits \cup {"+"})
DigitsOfRaw == SelectSeq(rawText, LAMBDA c : c \in Digits)

\* C21: formatNumberForWhatsApp returns null exactly when, after the
\* stripping, no digit remains or a '+' remains besides a single leading
\* one; otherwise it returns the digits of the input followed by the
\* suffix (so inputs that differ only in formatting characters or in a
\* leading '+' give the same address), and formatting the returned address
\* again returns it unchanged.
C21_NormalizeAddress ==
  LET invalid == \/ DigitsOfRaw = <<>>
                 \/ \E i \in 2..Len(KeptOfRaw) : KeptOfRaw[i] = "+"
  IN textOp = "format" =>
       /\ (textOut.jid = NullJid) <=> invalid
       /\ ~invalid => /\ textOut.jid = DigitsOfRaw \o WhatsAppSuffix
                      /\ textOut.again = textOut.jid

\* C21 witness: a number with a leading '+' and a space between its digits
\* was formatted to its digits and the suffix.
C21_Witness ==
  /\ textOp = "format"
  /\ rawText = <<"+", "1", " ", "2">>
  /\ textOut.jid = <<"1", "2">> \o WhatsAppSuffix
  /\ textOut.again = textOut.jid

\* the number of '@' characters in rawText
AtCount == Cardinality({i \in 1..Len(rawText) : rawText[i] = "@"})
NoSpaces(s) == SelectSeq(s, LAMBDA c : c \notin SpaceSet)
\* rawText is one extracted mention and nothing else
OnlyAMention ==
  \/ \E i \in 1..Len(textOut.names) : NoSpaces(rawText) = <<"@">> \o NoSpaces(textOut.names[i])
  \/ \E i \in 1..Len(textOut.numbers) : NoSpaces(rawText) = <<"@">> \o textOut.numbers[i]

\* C22: with the numbers and names extracted from the same text,
\* extractActualMessage returns a text without any '@', without leading,
\* trailing or repeated whitespace, and with every extracted mention removed
\* in full: a text that is one mention and nothing else leaves the empty
\* text.
C22_StripRemovesEveryMention ==
  textOp = "strip" =>
    LET a == textOut.actual
    IN /\ \A i \in 1..Len(a) : a[i] # "@"
       /\ a # <<>> => a[1] \notin SpaceSet /\ a[Len(a)] \notin SpaceSet
       /\ \A i \in 1..(Len(a) - 1) : ~(a[i] \in SpaceSet /\ a[i + 1] \in SpaceSet)
       /\ OnlyAMention => a = <<>>

\* C23: no '@' token gives both a number and a name (a text with a single
\* '@' gives numbers or names, not both); every returned name has no digit
\* and at least 2 characters; every returned number is an optional '+'
\* followed by one or more digits.
C23_NumberOrNameNotBoth ==
  textOp = "extract" =>
    /\ AtCount = 1 => (textOut.numbers = <<>> \/ textOut.names = <<>>)
    /\ \A i \in 1..Len(textOut.names) :
         /\ Len(textOut.names[i]) >= 2
         /\ \A k \in 1..Len(textOut.names[i]) : textOut.names[i][k] \notin DigitSet
    /\ \A i \in 1..Len(textOut.numbers) : IsNumber(textOut.numbers[i])

\* stats.messageCount as a load of the file at p returns it
CountOf(fs, p) == IF fs[p].kind = "record" THEN fs[p].data.messageCount ELSE 0

\* C24: every addMessage call (inbound or outbound) increases
\* stats.messageCount of the record it is made on by exactly 1, and no
\* addMessage, detectAndUpdateLanguage or updateUserProfile call (patching
\* profile, participants or preferences) decreases a messageCount.
C24_MessageCountCountsAppends ==
  [][IsRecStep =>
       \A p \in Paths :
         /\ CountOf(files', p) >= CountOf(files, p)
         /\ CountOf(files', p) =
              IF lastRec'.op \in {"add", "reply"}
                 /\ p = GetUserDataPath(lastRec'.entity.id, lastRec'.entity.isGroup)
              THEN CountOf(files, p) + 1
              ELSE CountOf(files, p)]_vars

\* C24 witness: a record counted an inbound and an outbound message, and a
\* profile update made afterwards left the count at 2.
C24_Witness ==
  /\ lastRec.op = "update"
  /\ CountOf(files, LastPath) = 2
  /\ Len(appendLog[LastPath]) = 2
  /\ \E i, j \in 1..Len(lastRec.ret.conversation) :
       lastRec.ret.conversation[i].fromMe /\ ~lastRec.ret.conversation[j].fromMe

\* stats.topParticipants of the file at p
TopOf(p) == IF files[p].kind = "record" THEN files[p].data.topParticipants ELSE <<>>

\* C25: after every addMessage on a group record stats.topParticipants has
\* at most TopLimit entries (10 in the code), no two entries for one
\* participant, and is sorted by message count in non-increasing order.
C25_TopParticipantsRanked ==
  \A p \in Paths :
    /\ Len(TopOf(p)) <= TopLimit
    /\ \A i, j \in 1..Len(TopOf(p)) : TopOf(p)[i].id = TopOf(p)[j].id => i = j
    /\ \A i, j \in 1..Len(TopOf(p)) :
         i < j => TopOf(p)[i].messageCount >= TopOf(p)[j].messageCount

\* C25 witness: more senders than the list holds have written to the group,
\* the list is full, one sender is not on it, and the counts on it differ.
C25_Witness ==
  /\ lastRec.op = "add"
  /\ Len(TopOf(LastPath)) = TopLimit
  /\ TopOf(LastPath)[1].messageCount > TopOf(LastPath)[TopLimit].messageCount
  /\ \E s \in SenderIds :
       /\ NameOf(files, LastPath, s) # Absent
       /\ \A i \in 1..Len(TopOf(LastPath)) : TopOf(LastPath)[i].id # s

\* the number of inbound messages sender s has written to the group
InboundCount(s) ==
  Cardinality({k \in 1..Len(appendLog[GroupPath]) : appendLog[GroupPath][k].sender = s})
\* the senders that have written to the group, and those on the list
GroupSenders == {s \in SenderIds : InboundCount(s) > 0}
Listed == {TopOf(GroupPath)[i].id : i \in 1..Len(TopOf(GroupPath))}

\* C37: after any sequence of inbound group messages stats.topParticipants
\* lists the senders with the highest numbers of inbound messages: every
\* sender while there are at most TopLimit of them (10 in the code), and
\* otherwise TopLimit senders none of which has written less than a sender
\* that is not listed.
C37_TopParticipantsAreTheMostActive ==
  /\ Listed \subseteq GroupSenders
  /\ Cardinality(GroupSenders) <= TopLimit => Listed = GroupSenders
  /\ Cardinality(GroupSenders) > TopLimit => Cardinality(Listed) = TopLimit
  /\ \A s \in GroupSenders \ Listed : \A t \in Listed :
       InboundCount(t) >= InboundCount(s)

\* the tasks that ran processMessage to its decision (a message sent by the
\* account itself is skipped by the handler, a group message waits for its
\* metadata first)
Decided(t) == ~t.msg.fromMe /\ t.pc # "metadata"

WellFormed(command) ==
  /\ Len(command) >= 3
  /\ command[1] = "!reply"
  /\ command[2] # ""
  /\ \E i \in 3..Len(command) : command[i] # ""

IsCommandStep == lastCommand'.count = lastCommand.count + 1

C29_NoAppendLost ==
  \A p \in Paths :
    /\ CountOf(files, p) = Len(appendLog[p])
    /\ HistoryOf(p) = LastN(LoggedTags(p), Min(Len(LoggedTags(p)), HistoryBound))

\* C29 witness: two tasks on one conversation have finished; the second
\* appended its inbound message between the two appends of the first, and
\* the record counts all four.
C29_Witness ==
  \E i, j \in 1..Len(tasks) :
    /\ i # j
    /\ TaskPath(i) = TaskPath(j)
    /\ tasks[i].pc = "finished" /\ tasks[j].pc = "finished"
    /\ tasks[i].inTag # 0
    /\ tasks[i].inTag < tasks[j].inTag
    /\ tasks[j].inTag < tasks[i].replyTag
    /\ tasks[j].replyTag # 0
    /\ CountOf(files, TaskPath(i)) = 4

\* C35: every outbound entry in a record's history is a reply that the
\* transport accepted: the history of a conversation holds no reply of
\* sendAutoReply whose send raised.
C35_OutboundEntriesWereSent ==
  \A i \in 1..Len(tasks) :
    (tasks[i].replyTag # 0 /\ tasks[i].replyTag \in Range(HistoryOf(TaskPath(i))))
      => \A k \in 1..Len(outbox) : outbox[k].task = i => outbox[k].result # "raise"

\* task i resumes from the group-metadata await in this step
Resumes(i) == i \in 1..Len(tasks) /\ tasks[i].pc = "metadata" /\ tasks'[i].pc # "metadata"

\* C30: a task that resumes from the group-metadata await does not write a
\* participant name it read before suspending over a newer one stored in the
\* meantime: when the stored name of Member is a known name that differs
\* from the one in the task's snapshot, and the task's message brings no
\* name for Member, the stored name stays.
C30_NoStaleParticipantWrite ==
  [][\A i \in 1..MaxPipeline :
       (/\ Resumes(i)
        /\ Known(NameOf(files, GroupPath, Member))
        /\ NameOf(files, GroupPath, Member) # tasks[i].existingParts[Member]
        /\ ~(tasks[i].msg.participant = Member /\ Truthy(tasks[i].msg.pushName)))
       => NameOf(files', GroupPath, Member) = NameOf(files, GroupPath, Member)]_vars

\* the runs of 'line' listeners for the n-th line entered
RunsOf(n) == {k \in 1..Len(lineRuns) : lineRuns[k].line = n}

\* C38: every command line entered on the control channel is processed
\* exactly once, also after connection closes and reconnects, and one
\* "!reply" line causes at most one reply to be issued.
C38_LineProcessedOnce ==
  \A n \in 1..entered :
    /\ Cardinality(RunsOf(n)) = 1
    /\ Cardinality({k \in RunsOf(n) : lineRuns[k].reply}) <= 1

\* C39: a close whose reason is logged-out schedules no reconnect and
\* leaves none pending; a close for any other reason schedules one; and
\* at most one reconnect is pending at any time.
C39_ReconnectUnlessLoggedOut ==
  /\ lastClose.reason = "loggedOut" => ~lastClose.scheduled /\ reconnects = <<>>
  /\ lastClose.reason \in {"boom", "other"} => lastClose.scheduled
  /\ Len(reconnects) <= 1

\* no whitespace-separated token of rawText is in the dictionary
NoDictionaryToken ==
  LET words == SplitSpaces(DetectLower(rawText))
  IN \A i \in 1..Len(words) : words[i] \notin BengaliWordsInEnglish

\* C26: for a text none of whose tokens is in the dictionary of romanized
\* Bengali words, detectLanguage returns the code that
\* detectAndUpdateLanguage returns for the same text.
C26_RelayDetectionSameAsStore ==
  (textOp = "detect" /\ NoDictionaryToken) => textOut.relay = textOut.store

\* the later sections at rest
LaterIdleButConn == RecordIdle /\ ResolveIdle /\ QueueIdle /\ PipeIdle /\ TextIdle /\ CommandIdle
LaterIdle == LaterIdleButConn /\ ConnIdle

InitStore == StoreInit /\ MentionIdle /\ InboundInit /\ LaterIdle
SpecStore == InitStore /\ [][StoreNext]_vars

SpecStoreIds == InitStore /\ [][StoreIdsNext]_vars

InitMention == StoreInit /\ MentionInit /\ InboundInit /\ LaterIdle
SpecMention == InitMention /\ [][MentionNext]_vars

InitInbound == StoreInit /\ MentionIdle /\ InboundInit /\ LaterIdle
SpecInbound == InitInbound /\ [][InboundNext]_vars

InitRecord == StoreInit /\ MentionIdle /\ InboundInit /\ RecordInit /\ ResolveIdle /\ QueueIdle /\ PipeIdle /\ TextIdle /\ CommandIdle /\ ConnIdle
SpecRecord == InitRecord /\ [][RecordNext]_vars

InitResolve == StoreInit /\ MentionIdle /\ InboundInit /\ RecordIdle /\ ResolveInit /\ QueueIdle /\ PipeIdle /\ TextIdle /\ CommandIdle /\ ConnIdle
SpecResolve == InitResolve /\ [][ResolveNext]_vars

InitQueue == StoreInit /\ MentionIdle /\ InboundInit /\ RecordIdle /\ ResolveIdle /\ QueueInit /\ PipeIdle /\ TextIdle /\ CommandIdle /\ ConnIdle
SpecQueue == InitQueue /\ [][QueueNext]_vars

\* timers fire, and the transport settles every send it was given
SpecQueueFair ==
  /\ InitQueue
  /\ [][QueueNext]_vars
  /\ WF_vars(TimerFires)
  /\ \A i \in 1..MaxQueued : WF_vars(SendSettles(i))

InitPipe == StoreInit /\ MentionIdle /\ ResolveIdle /\ QueueIdle /\ PipeInit /\ TextIdle /\ CommandIdle /\ ConnIdle
SpecPipe == InitPipe /\ [][PipeNext]_vars

InitNormalize == StoreInit /\ MentionIdle /\ InboundInit /\ RecordIdle /\ ResolveIdle /\ QueueIdle /\ PipeIdle /\ NormalizeInit /\ CommandIdle /\ ConnIdle
SpecNormalize == InitNormalize /\ [][NormalizeNext]_vars

InitText == StoreInit /\ MentionIdle /\ InboundInit /\ RecordIdle /\ ResolveIdle /\ QueueIdle /\ PipeIdle /\ TextInit /\ CommandIdle /\ ConnIdle
SpecText == InitText /\ [][TextNext]_vars

InitDetect == StoreInit /\ MentionIdle /\ InboundInit /\ ResolveIdle /\ QueueIdle /\ PipeIdle /\ DetectInit /\ CommandIdle /\ ConnIdle
SpecDetect == InitDetect /\ [][DetectNext]_vars

InitTop == StoreInit /\ MentionIdle /\ InboundInit /\ TopInit /\ ResolveIdle /\ QueueIdle /\ PipeIdle /\ TextIdle /\ CommandIdle /\ ConnIdle
SpecTop == InitTop /\ [][TopNext]_vars

InitConnect == StoreInit /\ MentionIdle /\ InboundInit /\ LaterIdleButConn /\ ConnInit
SpecConnect == InitConnect /\ [][ConnNext]_vars

InitCommand == StoreInit /\ MentionIdle /\ InboundInit /\ RecordIdle /\ ResolveIdle /\ QueueIdle /\ PipeIdle /\ TextIdle /\ CommandInit /\ ConnIdle
SpecCommand == InitCommand /\ [][CommandNext]_vars

=============================================================================
